---- MODULE Spec2Model ----
(***************************************************************************)
(* A model of geco_stat's TimeIntervalSet (src/geco_stat/Time.py): sets of  *)
(* half-open intervals [s1,e1) U [s2,e2) U ... kept as a flat, sorted       *)
(* endpoint array, with union, intersection, complement and frame-time      *)
(* rounding.                                                                *)
(*                                                                          *)
(* Endpoints are float64 in the source; the model uses integers, which the  *)
(* floats represent exactly in the GPS-time range the code is written for.  *)
(* Python's 0-based indices and slices are kept in the operators and        *)
(* translated to 1-based sequences by At and Slice only.                    *)
(*                                                                          *)
(* A call's outcome is a record [raised, data]: raised = "none" and the     *)
(* returned endpoint array, or the name of the exception that was raised.   *)
(***************************************************************************)
EXTENDS Integers, Sequences, FiniteSets

VARIABLES
    pc,          \* position of the caller: "construct", "call", "chain" and
                 \* "done" for calls on TimeIntervalSets, "search" and "sum"
                 \* for the bounds search and the sums of three, and the
                 \* kind of call about to be made on an aggregate
                 \* ("statistics", "report", "reportset", "construct_set",
                 \* "load", "fold", "union")
    op,          \* the (first) operation that was invoked, "" before any
    op2,         \* the operation chained on the first one's result, "" if none
    A,           \* endpoint array of the receiver (self._data)
    B,           \* endpoint array of the argument (other._data)
    C,           \* endpoint array of a third set, for sums of three
    rawList,     \* the intervalSet argument handed to the constructor
    rawStart,    \* the start argument handed to the constructor (<<>> is None)
    rawEnd,      \* the end argument handed to the constructor (<<>> is None)
    out,         \* endpoint array returned by the first operation
    outObj,      \* the object the first operation returned: "fresh" (made by
                 \* the call), "receiver" or "argument"; "" when none
    out2,        \* endpoint array returned by the chained operation
    frames,      \* the list returned by split_into_frame_file_intervals
    bounds,      \* the arguments and the result of a bounds search on A;
                 \* None before any
    raised,      \* "none", or the exception the last operation raised
    build,       \* which classes the caller imported: "package" (those of
                 \* geco_stat/__init__.py) or "modules" (those of Data.py,
                 \* Report.py, ReportSet.py); "" while only TimeIntervalSet
                 \* is used
    aggA,        \* the receiver of a call on a Statistics, Report or ReportSet
    aggA0,       \* what the receiver held when the call was made
    aggB,        \* the argument of that call
    aggB0,       \* what the argument held when the call was made
    request,     \* the arguments of a ReportSet constructor or factory call
    aggOut,      \* the value that call returned; None when it raised
    steps        \* the methods a union call in progress has run so far, in
                 \* the order in which it ran them

\* the variables of the calls on TimeIntervalSets
timeVars == <<op2, A, B, C, rawList, rawStart, rawEnd, out, outObj, out2, frames, bounds>>

\* the variables of the calls on Statistics, Reports and ReportSets
aggVars == <<build, aggA, aggA0, aggB, aggB0, request, aggOut, steps>>

vars == <<pc, op, raised, timeVars, aggVars>>

\* Python's None
None == [class |-> "NoneType"]

(***************************************************************************)
(* Bounds of the model and constants of the program.                        *)
(***************************************************************************)
\* the largest endpoint of an operand drawn in Init
MaxTime == 128
\* the largest number of endpoints of an operand drawn in Init
MaxLen == 6
\* the largest endpoint of the sets that are summed three at a time
MaxSumTime == 65
\* the constructor's raw lists hold values 0..MaxArgVal
MaxArgVal == 3
\* the constructor's raw lists hold at most MaxArgLen values
MaxArgLen == 4
\* frame files start at integer multiples of 64
FrameLen == 64

\* offsets within a frame at which operands' endpoints are drawn: on a frame
\* boundary, just after it and just before the next one
Offsets == {0, 1, FrameLen - 1}

Times ==
    {t \in {q * FrameLen + o : q \in 0..(MaxTime \div FrameLen), o \in Offsets} :
        t <= MaxTime}

ArgVals == 0..MaxArgVal

(***************************************************************************)
(* Python sequence helpers.                                                 *)
(***************************************************************************)
\* d[i], 0-based
At(d, i) == d[i + 1]

\* d[lo:hi], 0-based, hi exclusive, both clamped to the array as Python does
\* (the indices passed here are never negative)
Slice(d, lo, hi) ==
    LET h == IF hi > Len(d) THEN Len(d) ELSE hi
    IN  IF lo >= h THEN <<>> ELSE SubSeq(d, lo + 1, h)

\* sorted(d) == d
IsSorted(d) == \A i \in 1..(Len(d) - 1) : d[i] <= d[i + 1]

\* bisect.bisect_left(d, x) on a sorted array: the first index whose value is >= x
bisect_left(d, x) == Cardinality({i \in DOMAIN d : d[i] < x})

\* bisect.bisect_right(d, x) on a sorted array: the first index whose value is > x
bisect_right(d, x) == Cardinality({i \in DOMAIN d : d[i] <= x})

Ok(d) == [raised |-> "none", data |-> d]

Raise(e) == [raised |-> e, data |-> <<>>]

(***************************************************************************)
(* TimeIntervalSet                                                          *)
(***************************************************************************)
\* TimeIntervalSet.__eq__: np.array_equal of the two endpoint arrays
__eq__(self, other) == self = other

\* _assert_self_consistent: TRUE when the check passes, FALSE when it raises
_assert_self_consistent(d) == IsSorted(d) /\ Len(d) % 2 = 0

\* remove_empty_sets that removes nothing
remove_empty_sets_loop_keeps_all(d, i) == d

\* the while loop of remove_empty_sets, i being the 0-based loop index
RECURSIVE remove_empty_sets_loop(_, _)
remove_empty_sets_loop(d, i) ==
    IF ~(i < Len(d) - 1)
    THEN d
    ELSE IF At(d, i) = At(d, i + 1)
         THEN remove_empty_sets_loop(Slice(d, 0, i) \o Slice(d, i + 2, Len(d)), i)
         ELSE remove_empty_sets_loop(d, i + 1)

remove_empty_sets(d) ==
    IF ~_assert_self_consistent(d)
    THEN Raise("Exception")
    ELSE Ok(remove_empty_sets_loop(d, 0))

\* the array is stored as given, without remove_empty_sets()
init_data_without_cleanup(d) == Ok(d)

\* the tail shared by the two non-empty branches of __init__: store the
\* array, remove_empty_sets(), _assert_self_consistent()
init_data(d) ==
    LET r == remove_empty_sets(d)
    IN  IF r.raised # "none"
        THEN r
        ELSE IF ~_assert_self_consistent(r.data)
             THEN Raise("Exception")
             ELSE r

\* TimeIntervalSet(intervalSet): the list branch of __init__
__init__(intervalSet) ==
    IF Len(intervalSet) % 2 # 0
    THEN Raise("ValueError")
    ELSE IF ~IsSorted(intervalSet)
         THEN Raise("ValueError")
         ELSE init_data(intervalSet)

\* TimeIntervalSet(start=s, end=e) and TimeIntervalSet(): the branches of
\* __init__ taken when intervalSet is None; <<>> stands for None, and an
\* order comparison with None raises
__init_start_end__(start, end) ==
    IF (start = <<>> /\ end = <<>>) \/ start = end
    THEN Ok(<<>>)
    ELSE IF start = <<>> \/ end = <<>>
         THEN Raise("TypeError")
         ELSE IF start[1] < end[1]
              THEN init_data(<<start[1], end[1]>>)
              ELSE Raise("ValueError")

__clone__(d) == __init__(d)

\* ReportInterface.clone
clone(d) ==
    IF ~_assert_self_consistent(d) THEN Raise("Exception") ELSE __clone__(d)

\* the bounds search with the right index found by bisect_left
__left_and_right_bounds___both_left(d, a, b) ==
    IF Len(d) = 0
    THEN [raised |-> "ValueError", l |-> 0, r |-> 0]
    ELSE [raised |-> "none", l |-> bisect_left(d, a), r |-> bisect_left(d, b) - 1]

__left_and_right_bounds__(d, a, b) ==
    IF Len(d) = 0
    THEN [raised |-> "ValueError", l |-> 0, r |-> 0]
    ELSE [raised |-> "none", l |-> bisect_left(d, a), r |-> bisect_right(d, b) - 1]

\* the splice of __union__ with the rule for a gap on both sides used in
\* all four cases
union_splice_always_inserts(res, start, end, l, r) ==
    Slice(res, 0, l) \o <<start, end>> \o Slice(res, r + 1, Len(res))

\* the splice of __union__ leaving the array as it is when both ends of the
\* new interval lie in the set, so that the intervals it bridges stay apart
union_splice_no_bridge(res, start, end, l, r) ==
    LET left == l % 2
        right == r % 2
    IN  IF left = 0 /\ right = 1
        THEN Slice(res, 0, l) \o <<start, end>> \o Slice(res, r + 1, Len(res))
        ELSE IF left = 0 /\ right = 0
        THEN Slice(res, 0, l) \o <<start>> \o Slice(res, r + 1, Len(res))
        ELSE IF left = 1 /\ right = 1
        THEN Slice(res, 0, l) \o <<end>> \o Slice(res, r + 1, Len(res))
        ELSE res

\* the four splice rules of __union__ for one interval [start, end) of other
union_splice(res, start, end, l, r) ==
    LET left == l % 2
        right == r % 2
    IN  IF left = 0 /\ right = 1
        THEN Slice(res, 0, l) \o <<start, end>> \o Slice(res, r + 1, Len(res))
        ELSE IF left = 0 /\ right = 0
        THEN Slice(res, 0, l) \o <<start>> \o Slice(res, r + 1, Len(res))
        ELSE IF left = 1 /\ right = 1
        THEN Slice(res, 0, l) \o <<end>> \o Slice(res, r + 1, Len(res))
        ELSE Slice(res, 0, l) \o Slice(res, r + 1, Len(res))

\* the for loop of __union__, i being the 0-based loop index
RECURSIVE union_loop(_, _, _)
union_loop(res, other, i) ==
    IF ~(i < Len(other) \div 2)
    THEN Ok(res)
    ELSE LET start == At(other, 2 * i)
             end == At(other, 2 * i + 1)
             bnds == __left_and_right_bounds__(res, start, end)
         IN  IF bnds.raised # "none"
             THEN Raise(bnds.raised)
             ELSE LET cleaned == remove_empty_sets(
                                     union_splice(res, start, end, bnds.l, bnds.r))
                  IN  IF cleaned.raised # "none"
                      THEN cleaned
                      ELSE union_loop(cleaned.data, other, i + 1)

\* __union__ without the branch for an empty receiver: the receiver's clone
\* is returned whenever either operand is empty
__union___without_empty_receiver(self, other) ==
    IF Len(other) = 0 \/ Len(self) = 0
    THEN clone(self)
    ELSE LET result == clone(self)
         IN  IF result.raised # "none"
             THEN result
             ELSE union_loop(result.data, other, 0)

__union__(self, other) ==
    IF Len(other) = 0
    THEN clone(self)
    ELSE IF Len(self) = 0
         THEN clone(other)
         ELSE LET result == clone(self)
              IN  IF result.raised # "none"
                  THEN result
                  ELSE union_loop(result.data, other, 0)

\* ReportInterface.union; _confirm_unionability compares the type and the
\* version of the operands, which are the same for any two TimeIntervalSets
union(self, other) ==
    IF ~_assert_self_consistent(self) \/ ~_assert_self_consistent(other)
    THEN Raise("Exception")
    ELSE __union__(self, other)

\* the splice of intersection without the start of an interval that begins
\* inside the set
intersection_splice_drops_start(res, self, start, end, l, r) ==
    IF r % 2 = 1
    THEN res \o Slice(self, l, r + 1)
    ELSE res \o Slice(self, l, r + 1) \o <<end>>

\* the splice of intersection without the end of an interval that ends
\* inside the set
intersection_splice_drops_end(res, self, start, end, l, r) ==
    IF l % 2 = 0
    THEN res \o Slice(self, l, r + 1)
    ELSE res \o <<start>> \o Slice(self, l, r + 1)

\* the four splice rules of intersection for one interval [start, end) of other
intersection_splice(res, self, start, end, l, r) ==
    LET left == l % 2
        right == r % 2
    IN  IF left = 0 /\ right = 1
        THEN res \o Slice(self, l, r + 1)
        ELSE IF left = 0 /\ right = 0
        THEN res \o Slice(self, l, r + 1) \o <<end>>
        ELSE IF left = 1 /\ right = 1
        THEN res \o <<start>> \o Slice(self, l, r + 1)
        ELSE res \o <<start>> \o Slice(self, l, r + 1) \o <<end>>

\* the for loop of intersection, i being the 0-based loop index
RECURSIVE intersection_loop(_, _, _, _)
intersection_loop(res, self, other, i) ==
    IF ~(i < Len(other) \div 2)
    THEN Ok(res)
    ELSE LET start == At(other, 2 * i)
             end == At(other, 2 * i + 1)
             bnds == __left_and_right_bounds__(self, start, end)
         IN  IF bnds.raised # "none"
             THEN Raise(bnds.raised)
             ELSE LET cleaned == remove_empty_sets(
                          intersection_splice(res, self, start, end, bnds.l, bnds.r))
                  IN  IF cleaned.raised # "none"
                      THEN cleaned
                      ELSE intersection_loop(cleaned.data, self, other, i + 1)

intersection(self, other) ==
    IF ~_assert_self_consistent(self) \/ ~_assert_self_consistent(other)
    THEN Raise("Exception")
    ELSE IF Len(other) = 0 \/ Len(self) = 0
         THEN Ok(<<>>)
         ELSE intersection_loop(<<>>, self, other, 0)

\* the splice of complement_with_respect_to with the payload of intersection
complement_splice_keeps_self(res, self, start, end, l, r) ==
    res \o Slice(self, l, r + 1)

\* the four splice rules of complement_with_respect_to for one interval
\* [start, end) of other
complement_splice(res, self, start, end, l, r) ==
    LET left == l % 2
        right == r % 2
    IN  IF left = 0 /\ right = 1
        THEN res \o <<start>> \o Slice(self, l, r + 1) \o <<end>>
        ELSE IF left = 0 /\ right = 0
        THEN res \o <<start>> \o Slice(self, l, r + 1)
        ELSE IF left = 1 /\ right = 1
        THEN res \o Slice(self, l, r + 1) \o <<end>>
        ELSE res \o Slice(self, l, r + 1)

\* the for loop of complement_with_respect_to, i being the 0-based loop index
RECURSIVE complement_loop(_, _, _, _)
complement_loop(res, self, other, i) ==
    IF ~(i < Len(other) \div 2)
    THEN Ok(res)
    ELSE LET start == At(other, 2 * i)
             end == At(other, 2 * i + 1)
             bnds == __left_and_right_bounds__(self, start, end)
         IN  IF bnds.raised # "none"
             THEN Raise(bnds.raised)
             ELSE LET cleaned == remove_empty_sets(
                          complement_splice(res, self, start, end, bnds.l, bnds.r))
                  IN  IF cleaned.raised # "none"
                      THEN cleaned
                      ELSE complement_loop(cleaned.data, self, other, i + 1)

\* complement_with_respect_to without its superset test
complement_with_respect_to_unchecked(self, other) ==
    IF Len(self) = 0
    THEN Ok(other)
    ELSE complement_loop(<<>>, self, other, 0)

\* the superset test is self.union(other) != other, ReportInterface.__ne__
\* negating the array equality of __eq__; with an empty self the argument
\* itself is returned
complement_with_respect_to(self, other) ==
    IF ~_assert_self_consistent(self) \/ ~_assert_self_consistent(other)
    THEN Raise("Exception")
    ELSE LET u == union(self, other)
         IN  IF u.raised # "none"
             THEN u
             ELSE IF u.data # other
                  THEN Raise("ValueError")
                  ELSE IF Len(self) = 0
                       THEN Ok(other)
                       ELSE complement_loop(<<>>, self, other, 0)

\* no rounding down
find_start_time_unrounded(gps_time) == gps_time

\* rounding down to a multiple of 64: floor(gps_time / 64.) * 64
__find_frame_file_gps_start_time__(gps_time) == (gps_time \div FrameLen) * FrameLen

\* the end of the frame that holds gps_time, which is the next frame's end
\* for a time that is on a frame boundary already
find_end_time_next_frame(gps_time) == ((gps_time \div FrameLen) + 1) * FrameLen

\* rounding up to a multiple of 64: ceil(gps_time / 64.) * 64
__find_frame_file_gps_end_time__(gps_time) ==
    ((gps_time + FrameLen - 1) \div FrameLen) * FrameLen

\* the for loop of round_to_frame_times, i being the 0-based loop index:
\* rounded_times += cls([start time, end time]), += being __add__, the union
RECURSIVE round_loop(_, _, _)
round_loop(rounded_times, self, i) ==
    IF ~(i < Len(self) \div 2)
    THEN Ok(rounded_times)
    ELSE LET piece == __init__(<<__find_frame_file_gps_start_time__(At(self, 2 * i)),
                                 __find_frame_file_gps_end_time__(At(self, 2 * i + 1))>>)
         IN  IF piece.raised # "none"
             THEN piece
             ELSE LET sum == union(rounded_times, piece.data)
                  IN  IF sum.raised # "none"
                      THEN sum
                      ELSE round_loop(sum.data, self, i + 1)

round_to_frame_times(self) == round_loop(<<>>, self, 0)

\* the range as one interval, whatever its length
frame_range_unstepped(lo, hi) ==
    IF ~(lo < hi) THEN <<>> ELSE <<__init__(<<lo, hi>>).data>>

\* only the first frame of the range
frame_range_first_only(lo, hi) ==
    IF ~(lo < hi) THEN <<>> ELSE <<<<lo, lo + FrameLen>>>>

\* range(lo, hi, 64) as the list of TimeIntervalSet([start_time, start_time + 64])
RECURSIVE frame_range(_, _)
frame_range(lo, hi) ==
    IF ~(lo < hi)
    THEN <<>>
    ELSE <<__init__(<<lo, lo + FrameLen>>).data>> \o frame_range(lo + FrameLen, hi)

\* the outer for loop of split_into_frame_file_intervals; the endpoints are
\* integers in the model, so the int(x) != x tests never raise
RECURSIVE split_loop(_, _, _)
split_loop(frame_intervals, self, i) ==
    IF ~(i < Len(self) \div 2)
    THEN frame_intervals
    ELSE split_loop(frame_intervals \o frame_range(At(self, 2 * i), At(self, 2 * i + 1)),
                    self, i + 1)

\* [raised, list]: the list of endpoint arrays returned, or the error raised
split_into_frame_file_intervals(self) ==
    LET rounded == round_to_frame_times(self)
    IN  IF rounded.raised # "none"
        THEN [raised |-> rounded.raised, list |-> <<>>]
        ELSE IF rounded.data # self
             THEN [raised |-> "ValueError", list |-> <<>>]
             ELSE [raised |-> "none", list |-> split_loop(<<>>, self, 0)]

\* TimeIntervalSet.combined_length, the for loop from index i on
RECURSIVE combined_length_loop(_, _, _)
combined_length_loop(length, self, i) ==
    IF ~(i < Len(self) \div 2)
    THEN length
    ELSE combined_length_loop(length + (At(self, 2 * i + 1) - At(self, 2 * i)), self, i + 1)

combined_length(self) ==
    IF Len(self) = 0 THEN 0 ELSE combined_length_loop(0, self, 0)

\* the tests Timeseries.locate_frame_file makes of its time_interval before
\* it looks for the file: "none", or the error raised by the first that fails
locate_frame_file_window_tests(time_interval, rounded) ==
    IF rounded.raised # "none"
    THEN rounded.raised
    ELSE IF ~__eq__(rounded.data, time_interval)
    THEN "ValueError: time interval must be rounded to frame times"
    ELSE IF combined_length(time_interval) # 64
    THEN "ValueError: time interval must fit a single frame file"
    ELSE IF Len(time_interval) # 2
    THEN "ValueError: time interval set must be 1 continuous interval"
    ELSE "none"

locate_frame_file(time_interval) ==
    locate_frame_file_window_tests(time_interval, round_to_frame_times(time_interval))

(***************************************************************************)
(* Which object a call hands back.  `result` names an object; every         *)
(* assignment result._data = ... lands in that object, and the object is    *)
(* what the call returns.  "fresh" is an instance the call constructed.     *)
(***************************************************************************)
\* result = self, without the clone
union_object_is_receiver(self, other) == "receiver"

\* __union__ returns self.clone(), other.clone(), or result = self.clone();
\* clone is type(self)(self.to_ndarray()), and the constructor stores
\* np.array([float(x) for x in intervalSet]), a new array
union_object(self, other) == "fresh"

\* intersection returns TimeIntervalSet() or result = TimeIntervalSet()
intersection_object(self, other) == "fresh"

\* complement_with_respect_to returns other when len(self) == 0, and
\* otherwise result = TimeIntervalSet()
complement_object(self, other) == IF Len(self) = 0 THEN "argument" ELSE "fresh"

\* round_to_frame_times starts from cls() and rebinds rounded_times to the
\* value of __add__, a union
round_object(self) == "fresh"

\* the endpoints operand object `name` holds after a call that bound result
\* to object obj and returned with r.data in it
Held(name, d, obj, r) == IF obj = name /\ r.raised = "none" THEN r.data ELSE d

(***************************************************************************)
(* The state machine: a caller either constructs a TimeIntervalSet from     *)
(* raw arguments, or holds two constructed sets A and B and calls a method  *)
(* of A, possibly followed by a second call on the value returned.          *)
(***************************************************************************)
\* the strictly increasing sequence of the elements of a finite set of numbers
RECURSIVE SortedSeq(_)
SortedSeq(S) ==
    IF S = {}
    THEN <<>>
    ELSE LET m == CHOOSE x \in S : \A y \in S : x <= y
         IN  <<m>> \o SortedSeq(S \ {m})

\* the operands: what the constructor returns for the sorted endpoint lists
\* of at most MaxLen distinct values of Times
TimeIntervalSets ==
    {__init__(SortedSeq(S)).data :
        S \in {T \in SUBSET Times : Cardinality(T) % 2 = 0 /\ Cardinality(T) <= MaxLen}}

\* the raw lists handed to the constructor: sorted or not, of any length
RawLists == UNION {[1..n -> ArgVals] : n \in 0..MaxArgLen}

\* the raw start and end arguments: None or a number
RawEnds == {<<>>} \cup {<<v>> : v \in ArgVals}

InitConstruct ==
    /\ pc = "construct"
    /\ A = <<>>
    /\ B = <<>>
    /\ C = <<>>

InitCall ==
    /\ pc = "call"
    /\ A \in TimeIntervalSets
    /\ B \in TimeIntervalSets
    /\ C = <<>>

Init ==
    /\ (InitConstruct \/ InitCall)
    /\ op = ""
    /\ op2 = ""
    /\ rawList = <<>>
    /\ rawStart = <<>>
    /\ rawEnd = <<>>
    /\ out = <<>>
    /\ outObj = ""
    /\ out2 = <<>>
    /\ frames = <<>>
    /\ bounds = None
    /\ raised = "none"
    /\ build = ""
    /\ aggA = None
    /\ aggA0 = None
    /\ aggB = None
    /\ aggB0 = None
    /\ request = None
    /\ aggOut = None
    /\ steps = <<>>

\* where the caller stands after a first call that returned or raised
After(r) == IF r.raised = "none" THEN "chain" ELSE "done"

\* TimeIntervalSet(l)
NewFromList(l) ==
    /\ LET r == __init__(l)
       IN  /\ out' = r.data
           /\ raised' = r.raised
    /\ rawList' = l
    /\ outObj' = IF raised' = "none" THEN "fresh" ELSE ""
    /\ op' = "new"
    /\ pc' = "done"
    /\ UNCHANGED <<op2, A, B, rawStart, rawEnd, out2, frames>>
    /\ UNCHANGED <<C, bounds, aggVars>>

\* TimeIntervalSet(start=s, end=e), TimeIntervalSet()
NewFromStartEnd(s, e) ==
    /\ LET r == __init_start_end__(s, e)
       IN  /\ out' = r.data
           /\ raised' = r.raised
    /\ rawStart' = s
    /\ rawEnd' = e
    /\ outObj' = IF raised' = "none" THEN "fresh" ELSE ""
    /\ op' = "new_start_end"
    /\ pc' = "done"
    /\ UNCHANGED <<op2, A, B, rawList, out2, frames>>
    /\ UNCHANGED <<C, bounds, aggVars>>

\* A.union(B), A + B
Union ==
    /\ pc = "call"
    /\ LET r == union(A, B)
           o == union_object(A, B)
       IN  /\ out' = r.data
           /\ raised' = r.raised
           /\ pc' = After(r)
           /\ outObj' = IF r.raised = "none" THEN o ELSE ""
           /\ A' = Held("receiver", A, o, r)
           /\ B' = Held("argument", B, o, r)
    /\ op' = "union"
    /\ UNCHANGED <<op2, rawList, rawStart, rawEnd, out2, frames>>
    /\ UNCHANGED <<C, bounds, aggVars>>

\* A.intersection(B), A * B
Intersection ==
    /\ pc = "call"
    /\ LET r == intersection(A, B)
           o == intersection_object(A, B)
       IN  /\ out' = r.data
           /\ raised' = r.raised
           /\ pc' = After(r)
           /\ outObj' = IF r.raised = "none" THEN o ELSE ""
           /\ A' = Held("receiver", A, o, r)
           /\ B' = Held("argument", B, o, r)
    /\ op' = "intersection"
    /\ UNCHANGED <<op2, rawList, rawStart, rawEnd, out2, frames>>
    /\ UNCHANGED <<C, bounds, aggVars>>

\* A.complement_with_respect_to(B), B - A
Complement ==
    /\ pc = "call"
    /\ LET r == complement_with_respect_to(A, B)
           o == complement_object(A, B)
       IN  /\ out' = r.data
           /\ raised' = r.raised
           /\ pc' = After(r)
           /\ outObj' = IF r.raised = "none" THEN o ELSE ""
           /\ A' = Held("receiver", A, o, r)
           /\ B' = Held("argument", B, o, r)
    /\ op' = "complement"
    /\ UNCHANGED <<op2, rawList, rawStart, rawEnd, out2, frames>>
    /\ UNCHANGED <<C, bounds, aggVars>>

\* A.round_to_frame_times()
Round ==
    /\ pc = "call"
    /\ LET r == round_to_frame_times(A)
           o == round_object(A)
       IN  /\ out' = r.data
           /\ raised' = r.raised
           /\ pc' = After(r)
           /\ outObj' = IF r.raised = "none" THEN o ELSE ""
           /\ A' = Held("receiver", A, o, r)
           /\ B' = Held("argument", B, o, r)
    /\ op' = "round"
    /\ UNCHANGED <<op2, rawList, rawStart, rawEnd, out2, frames>>
    /\ UNCHANGED <<C, bounds, aggVars>>

\* A.split_into_frame_file_intervals()
Split ==
    /\ pc = "call"
    /\ LET r == split_into_frame_file_intervals(A)
       IN  /\ frames' = r.list
           /\ raised' = r.raised
    /\ op' = "split"
    /\ pc' = "done"
    /\ UNCHANGED <<op2, A, B, rawList, rawStart, rawEnd, out, outObj, out2>>
    /\ UNCHANGED <<C, bounds, aggVars>>

\* (A + B) * A
ThenIntersectReceiver ==
    /\ pc = "chain"
    /\ op = "union"
    /\ LET r == intersection(out, A)
       IN  /\ out2' = r.data
           /\ raised' = r.raised
    /\ op2' = "intersection_receiver"
    /\ pc' = "done"
    /\ UNCHANGED <<op, A, B, rawList, rawStart, rawEnd, out, outObj, frames>>
    /\ UNCHANGED <<C, bounds, aggVars>>

\* (A + B) * B
ThenIntersectArgument ==
    /\ pc = "chain"
    /\ op = "union"
    /\ LET r == intersection(out, B)
       IN  /\ out2' = r.data
           /\ raised' = r.raised
    /\ op2' = "intersection_argument"
    /\ pc' = "done"
    /\ UNCHANGED <<op, A, B, rawList, rawStart, rawEnd, out, outObj, frames>>
    /\ UNCHANGED <<C, bounds, aggVars>>

\* (B - A) + A
ThenUnionReceiver ==
    /\ pc = "chain"
    /\ op = "complement"
    /\ LET r == union(out, A)
       IN  /\ out2' = r.data
           /\ raised' = r.raised
    /\ op2' = "union_receiver"
    /\ pc' = "done"
    /\ UNCHANGED <<op, A, B, rawList, rawStart, rawEnd, out, outObj, frames>>
    /\ UNCHANGED <<C, bounds, aggVars>>

\* A.round_to_frame_times().round_to_frame_times()
ThenRound ==
    /\ pc = "chain"
    /\ op = "round"
    /\ LET r == round_to_frame_times(out)
       IN  /\ out2' = r.data
           /\ raised' = r.raised
    /\ op2' = "round"
    /\ pc' = "done"
    /\ UNCHANGED <<op, A, B, rawList, rawStart, rawEnd, out, outObj, frames>>
    /\ UNCHANGED <<C, bounds, aggVars>>

\* the caller constructs a TimeIntervalSet from raw arguments
Construct ==
    /\ pc = "construct"
    /\ \/ \E l \in RawLists : NewFromList(l)
       \/ \E s \in RawEnds, e \in RawEnds : NewFromStartEnd(s, e)

Next ==
    \/ Construct
    \/ Union
    \/ Intersection
    \/ Complement
    \/ Round
    \/ Split
    \/ ThenIntersectReceiver
    \/ ThenIntersectArgument
    \/ ThenUnionReceiver
    \/ ThenRound

Spec == Init /\ [][Next]_vars

(***************************************************************************)
(* A second caller of TimeIntervalSet: it either searches a set for the     *)
(* bounds of an interval, or holds three sets and sums them in two orders.  *)
(***************************************************************************)
\* the sets that are summed: those with endpoints up to MaxSumTime
SumSets == {d \in TimeIntervalSets : \A i \in DOMAIN d : d[i] <= MaxSumTime}

InitSearch ==
    /\ pc = "search"
    /\ A \in TimeIntervalSets
    /\ B = <<>>
    /\ C = <<>>

InitSum ==
    /\ pc = "sum"
    /\ A \in SumSets
    /\ B \in SumSets
    /\ C \in SumSets

InitSets ==
    /\ (InitSearch \/ InitSum)
    /\ op = ""
    /\ op2 = ""
    /\ rawList = <<>>
    /\ rawStart = <<>>
    /\ rawEnd = <<>>
    /\ out = <<>>
    /\ outObj = ""
    /\ out2 = <<>>
    /\ frames = <<>>
    /\ bounds = None
    /\ raised = "none"
    /\ build = ""
    /\ aggA = None
    /\ aggA0 = None
    /\ aggB = None
    /\ aggB0 = None
    /\ request = None
    /\ aggOut = None
    /\ steps = <<>>

\* A.__left_and_right_bounds__(a, b)
LeftAndRightBounds ==
    /\ pc = "search"
    /\ \E a \in Times, b \in Times :
          LET found(r) ==
                  /\ bounds' = [a |-> a, b |-> b, l |-> r.l, r |-> r.r]
                  /\ raised' = r.raised
          IN  found(__left_and_right_bounds__(A, a, b))
    /\ op' = "__left_and_right_bounds__"
    /\ pc' = "done"
    /\ UNCHANGED <<op2, A, B, C, rawList, rawStart, rawEnd, out, outObj, out2, frames>>
    /\ UNCHANGED aggVars

\* the value of x + y where x and y are the outcomes of two expressions:
\* an exception raised by either goes through
Plus(x, y) ==
    IF x.raised # "none"
    THEN x
    ELSE IF y.raised # "none" THEN y ELSE union(x.data, y.data)

\* the caller evaluates the two expressions `left` and `right` and keeps
\* what each returned
Evaluate(name, left, right) ==
    /\ pc = "sum"
    /\ out' = left.data
    /\ out2' = right.data
    /\ raised' = IF left.raised # "none" THEN left.raised ELSE right.raised
    /\ op' = name
    /\ pc' = "done"
    /\ UNCHANGED <<op2, A, B, C, rawList, rawStart, rawEnd, outObj, frames, bounds>>
    /\ UNCHANGED aggVars

\* A + B and B + A
SumBothWays == Evaluate("A + B, B + A", Plus(Ok(A), Ok(B)), Plus(Ok(B), Ok(A)))

\* (A + B) + C and A + (B + C)
SumOfThree ==
    Evaluate("(A + B) + C, A + (B + C)",
             Plus(Plus(Ok(A), Ok(B)), Ok(C)), Plus(Ok(A), Plus(Ok(B), Ok(C))))

\* A + A and A
SumWithItself == Evaluate("A + A, A", Plus(Ok(A), Ok(A)), Ok(A))

\* A + TimeIntervalSet() and A
SumWithEmpty ==
    Evaluate("A + TimeIntervalSet(), A", Plus(Ok(A), __init_start_end__(<<>>, <<>>)), Ok(A))

\* TimeIntervalSet() + A and A
EmptySumWith ==
    Evaluate("TimeIntervalSet() + A, A", Plus(__init_start_end__(<<>>, <<>>), Ok(A)), Ok(A))

NextSets ==
    \/ LeftAndRightBounds
    \/ SumBothWays
    \/ SumOfThree
    \/ SumWithItself
    \/ SumWithEmpty
    \/ EmptySumWith

SpecSets == InitSets /\ [][NextSets]_vars

(***************************************************************************)
(* What the operations are meant to compute, stated on points.              *)
(***************************************************************************)
\* t lies in the set d: s_i <= t < e_i for one of its intervals
Contains(d, t) == \E i \in 0..((Len(d) \div 2) - 1) : At(d, 2 * i) <= t /\ t < At(d, 2 * i + 1)

\* the indices of the frames that endpoints of operands and results fall in
FrameIndices == 0..((MaxTime \div FrameLen) + 1)

\* Every endpoint of an operand or of a result is in Times or a multiple of
\* FrameLen, and a set of half-open intervals with its endpoints among these
\* values is constant between two neighbours of them, so that its points
\* among these values determine all of its points.
TestPoints == Times \cup {q * FrameLen : q \in FrameIndices}

Points(d) == {t \in TestPoints : Contains(d, t)}

\* even length and strictly increasing
Canonical(d) ==
    /\ Len(d) % 2 = 0
    /\ \A i \in 1..(Len(d) - 1) : d[i] < d[i + 1]

\* no common point
Disjoint(x, y) == Points(x) \cap Points(y) = {}

\* the last call returned
Returned == op # "" /\ raised = "none"

\* the first call returned: a second call was or can be made on its value, or
\* it was the only call and did not raise
FirstReturned == op # "" /\ (pc = "chain" \/ op2 # "" \/ raised = "none")

\* every endpoint is one of the test points
InGrid(d) == \A i \in DOMAIN d : d[i] \in TestPoints

(***************************************************************************)
(* Claims                                                                   *)
(***************************************************************************)
\* C1: every TimeIntervalSet the constructor produces (from a sorted list of
\* even length or from a start/end pair) and every one that union,
\* intersection, complement_with_respect_to or round_to_frame_times returns
\* has an endpoint array of even length that is strictly increasing.
C1_EndpointsStrictlyIncreasing ==
    /\ (FirstReturned /\ op \in {"new", "new_start_end", "union", "intersection",
                                 "complement", "round"})
           => Canonical(out)
    /\ (Returned /\ op2 # "") => Canonical(out2)

\* a sorted list with repeated endpoints was collapsed by the constructor
C1_Witness ==
    /\ op = "new"
    /\ Returned
    /\ \E i \in 1..(Len(rawList) - 1) : rawList[i] = rawList[i + 1]
    /\ out # <<>>
    /\ Len(out) < Len(rawList)

\* C2: A.union(B) returns, and what it returns holds exactly the points that
\* lie in A or in B; [66,69) + [67,72) is [66,72) and [66,69) + [70,72) is
\* [66,69) U [70,72).
C2_UnionIsPointwiseOr ==
    op = "union" =>
           /\ FirstReturned
           /\ InGrid(out)
           /\ Points(out) = Points(A) \cup Points(B)
           /\ union(<<66, 69>>, <<67, 72>>) = Ok(<<66, 72>>)
           /\ union(<<66, 69>>, <<70, 72>>) = Ok(<<66, 69, 70, 72>>)

\* an interval of B bridges two intervals of A
C2_Witness ==
    /\ op = "union"
    /\ Returned
    /\ Len(A) = 4
    /\ Len(B) >= 2
    /\ Len(out) = 2
    /\ \E j \in 0..((Len(B) \div 2) - 1) :
           /\ At(A, 0) < At(B, 2 * j) /\ At(B, 2 * j) < At(A, 1)
           /\ At(A, 2) < At(B, 2 * j + 1) /\ At(B, 2 * j + 1) < At(A, 3)

\* C3: A.intersection(B) returns, and what it returns holds exactly the
\* points that lie in both A and B, also when an interval of B starts or ends
\* on an endpoint of A and when an operand is empty; [66,69) * [67,72) is
\* [67,69).
C3_IntersectionIsPointwiseAnd ==
    op = "intersection" =>
           /\ FirstReturned
           /\ InGrid(out)
           /\ Points(out) = Points(A) \cap Points(B)
           /\ intersection(<<66, 69>>, <<67, 72>>) = Ok(<<67, 69>>)

\* an interval of B starts on an end of A and ends on a start of A, with an
\* interval of A in between
C3_Witness ==
    /\ op = "intersection"
    /\ Returned
    /\ Len(A) = 6
    /\ B = <<At(A, 1), At(A, 4)>>
    /\ out = <<At(A, 2), At(A, 3)>>

\* the receiver is a subset of the argument
Subset(x, y) == Points(x) \subseteq Points(y)

\* C4: for A a subset of B, A.complement_with_respect_to(B) returns exactly
\* the points of B that are not in A; [66,73) - [67,72) is [66,67) U [72,73)
\* and x - x is empty.
C4_ComplementIsPointwiseDifference ==
    (op = "complement" /\ Subset(A, B)) =>
           /\ FirstReturned
           /\ InGrid(out)
           /\ Points(out) = Points(B) \ Points(A)
           /\ A = B => out = <<>>
           /\ complement_with_respect_to(<<67, 72>>, <<66, 73>>) = Ok(<<66, 67, 72, 73>>)

\* two intervals of A are cut out of the middle of one interval of B
C4_Witness ==
    /\ op = "complement"
    /\ pc = "chain"
    /\ Len(A) = 4
    /\ Len(B) = 2
    /\ out = <<At(B, 0), At(A, 0), At(A, 1), At(A, 2), At(A, 3), At(B, 1)>>

\* C5: A.complement_with_respect_to(B) raises and returns nothing whenever B
\* is no superset of A, which is whenever A.union(B) != B; the operands are
\* as they were.
C5_ComplementRejectsNonSuperset ==
    /\ [](op = "complement" =>
             /\ ~Subset(A, B) <=> union(A, B).data # B
             /\ ~Subset(A, B) => (raised = "ValueError" /\ pc = "done" /\ out = <<>>))
    /\ [][op' = "complement" => (A' = A /\ B' = B)]_vars

\* A overlaps B without lying in it, and the call raised
C5_Witness ==
    /\ op = "complement"
    /\ raised = "ValueError"
    /\ Len(A) = 2
    /\ Len(B) = 2
    /\ At(B, 0) < At(A, 0)
    /\ At(A, 0) < At(B, 1)
    /\ At(B, 1) < At(A, 1)

\* C6: for disjoint A and B, (A + B) * A == A and (A + B) * B == B, also
\* when A and B touch at an endpoint.
C6_UnionThenIntersectionRestores ==
    (op = "union" /\ Disjoint(A, B)) =>
        /\ FirstReturned
        /\ op2 = "intersection_receiver" => (Returned /\ out2 = A)
        /\ op2 = "intersection_argument" => (Returned /\ out2 = B)

\* A and B touch at an endpoint, and (A + B) * A was computed
C6_Witness ==
    /\ op2 = "intersection_receiver"
    /\ Disjoint(A, B)
    /\ Len(A) = 2
    /\ Len(B) = 2
    /\ At(A, 1) = At(B, 0)
    /\ out = <<At(A, 0), At(B, 1)>>
    /\ out2 = A

\* C7: for A a subset of B, (B - A) + A == B.
C7_ComplementRoundTrip ==
    /\ (op = "complement" /\ Subset(A, B)) => FirstReturned
    /\ op2 = "union_receiver" => (Subset(A, B) /\ Returned /\ out2 = B)

\* a non-empty A that is a proper part of B was taken out and put back
C7_Witness ==
    /\ op2 = "union_receiver"
    /\ A # <<>>
    /\ out # <<>>
    /\ out2 = B

\* C8: round_to_frame_times is idempotent.
C8_RoundIdempotent ==
    /\ op = "round" => FirstReturned
    /\ op2 = "round" => (Returned /\ out2 = out)

\* a set that the first rounding changed was rounded twice
C8_Witness ==
    /\ op2 = "round"
    /\ out # A
    /\ out # <<>>
    /\ out2 = out

\* the frame [q * 64, (q + 1) * 64) holds a point of d
TouchesFrame(d, q) ==
    \E i \in 0..((Len(d) \div 2) - 1) :
        At(d, 2 * i) < (q + 1) * FrameLen /\ At(d, 2 * i + 1) > q * FrameLen

\* the frame [q * 64, (q + 1) * 64) lies in d
CoversFrame(d, q) ==
    \E i \in 0..((Len(d) \div 2) - 1) :
        At(d, 2 * i) <= q * FrameLen /\ At(d, 2 * i + 1) >= (q + 1) * FrameLen

\* every endpoint is an integer multiple of 64
FrameAligned(d) == \A i \in DOMAIN d : d[i] % FrameLen = 0

FrameStarts(d) == {q * FrameLen : q \in {f \in FrameIndices : CoversFrame(d, f)}}

\* C10: split_into_frame_file_intervals returns iff the set equals its own
\* rounding (all its endpoints are multiples of 64) and raises otherwise; it
\* returns, in ascending order, the interval [k, k + 64) of every frame that
\* lies in the set, and nothing else; [64,192) U [256,320) gives [64,128),
\* [128,192), [256,320).
C10_SplitIntoFrames ==
    op = "split" =>
           /\ Returned <=> round_to_frame_times(A) = Ok(A)
           /\ Returned <=> FrameAligned(A)
           /\ ~Returned => (raised = "ValueError" /\ frames = <<>>)
           /\ Returned =>
                  /\ Len(frames) = Cardinality(FrameStarts(A))
                  /\ \A i \in DOMAIN frames :
                         /\ Len(frames[i]) = 2
                         /\ frames[i][1] \in FrameStarts(A)
                         /\ frames[i][2] = frames[i][1] + FrameLen
                  /\ \A i \in 1..(Len(frames) - 1) : frames[i][1] < frames[i + 1][1]
           /\ split_into_frame_file_intervals(<<64, 192, 256, 320>>)
                  = [raised |-> "none", list |-> <<<<64, 128>>, <<128, 192>>, <<256, 320>>>>]

\* a set spanning two frames was split in two
C10_Witness ==
    /\ op = "split"
    /\ Returned
    /\ A = <<0, 2 * FrameLen>>
    /\ frames = <<<<0, FrameLen>>, <<FrameLen, 2 * FrameLen>>>>


(***************************************************************************)
(* Statistics (Data.py).  The class of the same name in __init__.py has    *)
(* the same fields and the same __union__.  A float is modelled by an       *)
(* integer; FloatMax stands for np.finfo(np.float64).max, which absorbs     *)
(* every sample statistic added to it, and Inf for the overflow of          *)
(* FloatMax + FloatMax.                                                     *)
(***************************************************************************)
\* the largest sample value
MaxSample == 2

\* the largest number of samples in a block (rows times columns)
MaxBlock == 2

\* the bitrates in use: the number of samples per second, and the length of
\* every Statistics vector
Bitrates == {1, 2}

FloatMax == 2 ^ 20

Inf == 2 * FloatMax

\* the version every class carries as __version__
Version == "version"

\* x + y in float64
fadd(x, y) ==
    IF x = Inf \/ y = Inf THEN Inf
    ELSE IF x = -Inf \/ y = -Inf THEN -Inf
    ELSE IF x \in {FloatMax, -FloatMax} /\ y \in {FloatMax, -FloatMax}
         THEN IF x # y THEN 0 ELSE IF x > 0 THEN Inf ELSE -Inf
    ELSE IF x \in {FloatMax, -FloatMax} THEN x
    ELSE IF y \in {FloatMax, -FloatMax} THEN y
    ELSE x + y

\* u + v of two arrays of one length
array_add(u, v) == [i \in 1..Len(u) |-> fadd(u[i], v[i])]

\* np.ones(n) * x, and np.zeros(n) for x = 0
filled(n, x) == [i \in 1..n |-> x]

\* Statistics(sum, sum_sq, max, min, num, bitrate) with every argument
\* given: reshape((bitrate,)) raises for an array of another size
Statistics__init__(sum, sum_sq, max, min, num, bitrate) ==
    IF \E v \in {sum, sum_sq, max, min} : Len(v) # bitrate
    THEN Raise("ValueError: cannot reshape array")
    ELSE Ok([class |-> "Statistics", sum |-> sum, sum_sq |-> sum_sq,
             max |-> max, min |-> min, num |-> num, bitrate |-> bitrate])

\* Statistics(bitrate=bitrate): the defaults of the constructor
Statistics_default(bitrate) ==
    Statistics__init__(filled(bitrate, 0), filled(bitrate, 0),
                       filled(bitrate, -FloatMax), filled(bitrate, FloatMax),
                       0, bitrate)

RECURSIVE SeqSum(_)
SeqSum(q) == IF q = <<>> THEN 0 ELSE q[1] + SeqSum(Tail(q))

SeqMax(q) == CHOOSE x \in {q[i] : i \in DOMAIN q} : \A i \in DOMAIN q : q[i] <= x

SeqMin(q) == CHOOSE x \in {q[i] : i \in DOMAIN q} : \A i \in DOMAIN q : x <= q[i]

\* column j of a sample block (rows are seconds, columns are offsets)
Column(timeseries, j) == [i \in 1..Len(timeseries) |-> timeseries[i][j]]

\* Statistics.from_timeseries: column sums, sums of squares, maxima and
\* minima, and the number of rows
Statistics_from_timeseries(timeseries) ==
    LET bitrate == Len(timeseries[1])
        col(j) == Column(timeseries, j)
    IN  Statistics__init__(
            [j \in 1..bitrate |-> SeqSum(col(j))],
            [j \in 1..bitrate |-> SeqSum([i \in 1..Len(col(j)) |-> col(j)[i] * col(j)[i]])],
            [j \in 1..bitrate |-> SeqMax(col(j))],
            [j \in 1..bitrate |-> SeqMin(col(j))],
            Len(timeseries), bitrate)

\* Statistics.assert_self_consistent: TRUE when it passes
Statistics_assert_self_consistent(self) ==
    \A v \in {self.sum, self.sum_sq, self.max, self.min} : Len(v) = self.bitrate

\* Statistics.assert_unionable: "none", or the error raised; the operands
\* are of one version and one type
Statistics_assert_unionable(self, other) ==
    IF self.bitrate # other.bitrate
    THEN "ValueError: Statistics have different bitrates"
    ELSE "none"

\* Statistics.__to_dict__ with the version and class that to_dict adds
Statistics_to_dict(self) ==
    [sum |-> self.sum, sum_sq |-> self.sum_sq, max |-> self.max, min |-> self.min,
     num |-> self.num, bitrate |-> self.bitrate, version |-> Version,
     class |-> "Statistics"]

\* from_dict for a dictionary of class Statistics: the version check, then
\* Statistics.__from_dict__
Statistics_from_dict(d) ==
    IF d.version # Version
    THEN Raise("VersionException")
    ELSE Statistics__init__(d.sum, d.sum_sq, d.max, d.min, d.num, d.bitrate)

\* clone of a Statistics: from_dict(to_dict())
Statistics_clone(self) == Statistics_from_dict(Statistics_to_dict(self))

\* Statistics.__union__: a clone of self whose five fields are then assigned
\* self's field + other's field
Statistics__union__(self, other) ==
    LET assigned(ans) ==
            IF ans.raised # "none"
            THEN ans
            ELSE Ok([ans.data EXCEPT !.sum = array_add(self.sum, other.sum),
                                     !.sum_sq = array_add(self.sum_sq, other.sum_sq),
                                     !.max = array_add(self.max, other.max),
                                     !.min = array_add(self.min, other.min),
                                     !.num = self.num + other.num])
    IN  assigned(Statistics_clone(self))

\* AbstUnionable.union on two Statistics
Statistics_union(self, other) ==
    IF ~Statistics_assert_self_consistent(self) \/ ~Statistics_assert_self_consistent(other)
    THEN Raise("AssertionError")
    ELSE LET c == Statistics_assert_unionable(self, other)
         IN  IF c # "none" THEN Raise(c) ELSE Statistics__union__(self, other)

\* the sample blocks a Timeseries can hold: at least one row, every row of
\* one bitrate
Blocks ==
    UNION {[1..r -> [1..b -> 0..MaxSample]] :
               <<r, b>> \in {x \in (1..MaxBlock) \X Bitrates : x[1] * x[2] <= MaxBlock}}

\* Statistics.__eq__; the version and the type are the same for any two
\* Statistics
Statistics__eq__(self, other) ==
    IF self.bitrate # other.bitrate
    THEN FALSE
    ELSE /\ self.sum = other.sum
         /\ self.sum_sq = other.sum_sq
         /\ self.max = other.max
         /\ self.min = other.min
         /\ self.num = other.num

\* the Statistics a caller holds: default ones and ones made from a block
StatisticsValues ==
    {Statistics_default(b).data : b \in Bitrates}
        \cup {Statistics_from_timeseries(ts).data : ts \in Blocks}

(***************************************************************************)
(* Reports: AbstReport of Report.py in the build "modules", AbstractReport  *)
(* of __init__.py in the build "package".  Both are abstract; the operands  *)
(* are instances of one concrete subclass whose primitives are Statistics   *)
(* (a Histogram does not pass its own self-consistency check).  A Report is *)
(* a record of bitrate, time_intervals (an endpoint array) and _data, the   *)
(* map from keys to primitives.                                             *)
(***************************************************************************)
\* AbstReport.assert_self_consistent: "none", or the error raised
Report_assert_self_consistent(self) ==
    IF \E key \in DOMAIN self._data : ~Statistics_assert_self_consistent(self._data[key])
    THEN "AssertionError"
    ELSE IF \E key \in DOMAIN self._data : self.bitrate # self._data[key].bitrate
         THEN "ValueError: Report constituents have different bitrates"
         ELSE "none"

\* AbstReport.__init__ with time_intervals and data given
Report__init__(bitrate, time_intervals, data) ==
    LET checked(new, c) == IF c # "none" THEN Raise(c) ELSE Ok(new)
        stored(new) == checked(new, Report_assert_self_consistent(new))
        cloned(t) ==
            IF t.raised # "none"
            THEN t
            ELSE stored([class |-> "Report", bitrate |-> bitrate,
                         time_intervals |-> t.data, _data |-> data])
    IN  cloned(clone(time_intervals))

\* AbstReport.assert_unionable: "none", or the error raised; the operands
\* are of one version and one type
Report_assert_unionable(self, other) ==
    IF self.bitrate # other.bitrate
    THEN "ValueError: Reports have different bitrates"
    ELSE IF DOMAIN self._data # DOMAIN other._data
         THEN "ValueError: AbstData sets do not have matching key sets."
         ELSE LET tested(common) ==
                      IF common.raised # "none"
                      THEN common.raised
                      ELSE IF common.data # __init__(<<>>).data
                           THEN "ValueError: Reports have overlapping time intervals."
                           ELSE "none"
              IN  tested(intersection(self.time_intervals, other.time_intervals))

\* a call's outcome together with what the receiver holds after it
Outcome(r, receiver) == [raised |-> r.raised, data |-> r.data, receiver |-> receiver]

\* the outcome of a clone(): shared tells whether the clone's _data is the
\* very map of the receiver
Cloned(r, receiver, shared) ==
    [raised |-> r.raised, data |-> r.data, receiver |-> receiver, shared |-> shared]

\* AbstReport.clone() in the build "modules": from_dict(to_dict()), and
\* __to_dict__ asks the TimeIntervalSet for to_dict(), which Time.py does
\* not define
AbstReport_clone(self) ==
    Cloned(Raise("AttributeError: 'TimeIntervalSet' object has no attribute 'to_dict'"),
           self, FALSE)

\* AbstractReport.clone() in the build "package": the self-consistency
\* check, then __clone__, which replaces every entry of self._data by its
\* clone and then reads self.version to hand it to the constructor; no
\* class of the package gives a Report an attribute of that name (the
\* version is the class attribute __version__)
AbstractReport_clone(self) ==
    LET replaced(c, cloned_data) ==
            IF c # "none"
            THEN Cloned(Raise(c), self, FALSE)
            ELSE IF \E key \in DOMAIN cloned_data : cloned_data[key].raised # "none"
                 THEN Cloned(Raise("ValueError: cannot reshape array"), self, FALSE)
                 ELSE Cloned(Raise("AttributeError: object has no attribute 'version'"),
                             [self EXCEPT !._data = [key \in DOMAIN cloned_data |->
                                                         cloned_data[key].data]],
                             FALSE)
    IN  replaced(Report_assert_self_consistent(self),
                 [key \in DOMAIN self._data |-> Statistics_clone(self._data[key])])

Report_clone(b, self) ==
    IF b = "modules" THEN AbstReport_clone(self) ELSE AbstractReport_clone(self)

\* AbstReport.__union__: ans = self.clone(); ans.time_intervals +=
\* other.time_intervals; ans._data[key] += other._data[key] for every key.
\* Where ans._data is the receiver's map, the receiver holds the unions too.
Report__union__(b, self, other) ==
    LET returned(ans, times, data) ==
            Outcome(Ok([ans.data EXCEPT !.time_intervals = times.data, !._data = data]),
                    IF ans.shared
                    THEN [ans.receiver EXCEPT !._data = data]
                    ELSE ans.receiver)
        summed(ans, times, sums) ==
            IF times.raised # "none"
            THEN Outcome(times, ans.receiver)
            ELSE IF \E key \in DOMAIN sums : sums[key].raised # "none"
                 THEN Outcome(Raise(sums[CHOOSE key \in DOMAIN sums :
                                             sums[key].raised # "none"].raised),
                              ans.receiver)
                 ELSE returned(ans, times, [key \in DOMAIN sums |-> sums[key].data])
        cloned(ans) ==
            IF ans.raised # "none"
            THEN Outcome(ans, ans.receiver)
            ELSE summed(ans,
                        union(ans.data.time_intervals, other.time_intervals),
                        [key \in DOMAIN ans.data._data |->
                             Statistics_union(ans.data._data[key], other._data[key])])
    IN  cloned(Report_clone(b, self))

\* union on two Reports: the two self-consistency checks, the test of
\* unionability, then __union__
Report_union(b, self, other) ==
    LET template(c1, c2, c3) ==
            IF c1 # "none" THEN Outcome(Raise(c1), self)
            ELSE IF c2 # "none" THEN Outcome(Raise(c2), self)
            ELSE IF c3 # "none" THEN Outcome(Raise(c3), self)
            ELSE Report__union__(b, self, other)
    IN  template(Report_assert_self_consistent(self),
                 Report_assert_self_consistent(other),
                 Report_assert_unionable(self, other))

\* type(self).from_timeseries(timeseries, time_intervals, bitrate) on a
\* Report class.  No Report class defines from_timeseries; the one inherited
\* (AbstTimeSeriesDerivable.from_timeseries(cls, timeseries) in the build
\* "modules", ReportInterface.from_timeseries(self, timeseries) in the build
\* "package") takes the timeseries alone, so the call with three arguments
\* raises
Report_from_timeseries(b, timeseries, time_intervals, bitrate) ==
    IF b = "modules"
    THEN Raise("TypeError: from_timeseries() takes exactly 2 arguments (4 given)")
    ELSE Raise("TypeError: from_timeseries() takes exactly 2 arguments (3 given)")

\* AbstReport.fold_in_timeseries: the argument of union is evaluated first
Report_fold_in_timeseries(b, self, timeseries, time_intervals, bitrate) ==
    LET folded(made) ==
            IF made.raised # "none"
            THEN Outcome(made, self)
            ELSE Report_union(b, self, made.data)
    IN  folded(Report_from_timeseries(b, timeseries, time_intervals, bitrate))

(***************************************************************************)
(* ReportSet: ReportSet.py in the build "modules", the class ReportSet of   *)
(* __init__.py in the build "package".  A ReportSet is a record of          *)
(* report_class_name, bitrate, channel_name, time_intervals, missing_times  *)
(* and the three Reports.  A class is named by its name.                    *)
(***************************************************************************)
\* the classes bound in the namespace of the module that defines ReportSet,
\* which globals() looks names up in: __init__.py defines the Report
\* classes, ReportSet.py imports none of them; no name is bound to `type`
Namespace(b) ==
    IF b = "package"
    THEN {"ReportInterface", "TimeIntervalSet", "VersionException",
          "MissingChannelDataException", "Timeseries", "PlottableInterface",
          "AbstractReportData", "Histogram", "Statistics", "AbstractReport",
          "IRIGBReport", "DuoToneReport", "ReportSet"}
    ELSE {"MissingChannelDataException", "Factory", "AbstUnionable",
          "AbstractPlottable", "HDF5_IO", "TimeIntervalSet", "ReportSet"}

\* ReportSet.get_report_class: globals()[name]
get_report_class(b, name) ==
    IF name \in Namespace(b) THEN Ok(name) ELSE Raise("KeyError")

\* the outcome of a check together with what the checked object holds after
Checked(e, receiver) == [raised |-> e, receiver |-> receiver]

\* the exception of the first of a sequence of outcomes that raised, "none"
\* when none did: statements run in order and the first exception ends them
FirstRaised(outcomes) ==
    IF \A i \in DOMAIN outcomes : outcomes[i].raised = "none"
    THEN "none"
    ELSE outcomes[CHOOSE i \in DOMAIN outcomes :
                      /\ outcomes[i].raised # "none"
                      /\ \A j \in 1..(i - 1) : outcomes[j].raised = "none"].raised

\* the last three tests of ReportSet.assert_self_consistent: `sum` is what
\* report_anomalies_only + report_sans_anomalies did, a union of Reports that
\* raises when the two cannot be unioned and that leaves its receiver as
\* Report__union__ leaves it; `missing` is what missing_times +
\* time_intervals did
ReportSet_assert_sums(self, sum, missing) ==
    LET after == [self EXCEPT !.report_anomalies_only = sum.receiver]
    IN  IF sum.raised # "none"
        THEN Checked(sum.raised, after)
        ELSE IF sum.data # self.report
        THEN Checked("ValueError: whole report should be union of anomalous and nominal parts",
                     after)
        ELSE IF missing.raised # "none"
        THEN Checked(missing.raised, after)
        ELSE IF missing.data # self.time_intervals
        THEN Checked("ValueError: missing times should be subset of all times in ReportSet",
                     after)
        ELSE IF self.time_intervals # self.report.time_intervals
        THEN Checked("ValueError: time intervals in full Report and ReportSet should match",
                     after)
        ELSE Checked("none", after)

\* the tests of ReportSet.assert_self_consistent on each of the three
\* Reports: it is an instance of the class that report_class_name names
\* (the Reports of a ReportSet are), it is self-consistent, it has the
\* bitrate of the ReportSet
ReportSet_assert_report(self, r) ==
    IF Report_assert_self_consistent(r) # "none"
    THEN Raise(Report_assert_self_consistent(r))
    ELSE IF self.bitrate # r.bitrate
    THEN Raise("ValueError: key has different bitrate than this ReportSet")
    ELSE Ok(r)

\* ReportSet.assert_self_consistent (_assert_self_consistent in the
\* package).  In the build "modules" the check of the two TimeIntervalSets
\* calls assert_self_consistent(), which Time.py does not define.
ReportSet_assert_self_consistent(b, self) ==
    IF get_report_class(b, self.report_class_name).raised # "none"
    THEN Checked(get_report_class(b, self.report_class_name).raised, self)
    ELSE IF FirstRaised([i \in 1..3 |->
                             ReportSet_assert_report(
                                 self, <<self.report, self.report_anomalies_only,
                                         self.report_sans_anomalies>>[i])]) # "none"
    THEN Checked(FirstRaised([i \in 1..3 |->
                                  ReportSet_assert_report(
                                      self, <<self.report, self.report_anomalies_only,
                                              self.report_sans_anomalies>>[i])]),
                 self)
    ELSE IF b = "modules"
    THEN Checked("AttributeError: 'TimeIntervalSet' object has no attribute 'assert_self_consistent'",
                 self)
    ELSE IF ~_assert_self_consistent(self.time_intervals)
              \/ ~_assert_self_consistent(self.missing_times)
    THEN Checked("Exception", self)
    ELSE ReportSet_assert_sums(self,
                               Report_union(b, self.report_anomalies_only,
                                            self.report_sans_anomalies),
                               union(self.missing_times, self.time_intervals))

\* the fields that ReportSet.__init__ stores on the instance
ReportSet_fields(report_class_name, bitrate, channel_name, time_intervals, report, report_anomalies_only, report_sans_anomalies, missing_times) ==
    [class |-> "ReportSet",
     report_class_name |-> report_class_name,
     bitrate |-> bitrate,
     channel_name |-> channel_name,
     time_intervals |-> time_intervals,
     missing_times |-> missing_times,
     report |-> report,
     report_anomalies_only |-> report_anomalies_only,
     report_sans_anomalies |-> report_sans_anomalies]

\* the end of ReportSet.__init__: the new instance is what its check leaves
\* of it, unless the check raises
ReportSet__init___checked(c) ==
    IF c.raised # "none" THEN Raise(c.raised) ELSE Ok(c.receiver)

\* ReportSet.__init__ past the test of the class: `times` and `missing` are
\* what the clones of the two interval sets did, `clones` what the clones of
\* the three Reports did
ReportSet__init___stores(b, report_class_name, bitrate, channel_name, times, missing, clones) ==
    IF times.raised # "none" THEN times
    ELSE IF missing.raised # "none" THEN missing
    ELSE IF FirstRaised(clones) # "none" THEN Raise(FirstRaised(clones))
    ELSE ReportSet__init___checked(
             ReportSet_assert_self_consistent(
                 b, ReportSet_fields(report_class_name, bitrate, channel_name,
                                     times.data, clones[1].data, clones[2].data,
                                     clones[3].data, missing.data)))

\* a constructor that stores the three Reports it is handed without the
\* test of the class and without the final check
ReportSet__init___unchecked(b, report_class_name, bitrate, channel_name, time_intervals, report, report_anomalies_only, report_sans_anomalies, missing_times) ==
    IF report = None \/ report_anomalies_only = None \/ report_sans_anomalies = None
    THEN Raise("AttributeError: 'NoneType' object has no attribute 'clone'")
    ELSE Ok(ReportSet_fields(report_class_name, bitrate, channel_name, time_intervals,
                             report, report_anomalies_only, report_sans_anomalies,
                             missing_times))

\* ReportSet.__init__.  The class that the name resolves to is a Report
\* class and never `type` itself, so that `not self.get_report_class() is
\* type` holds.  Past that test: the two interval sets are cloned (None
\* stands for the empty set), and the three Reports are default ones (none
\* given; get_report_class() is `type` there, and type(bitrate=bitrate)
\* raises) or clones of the ones given.
ReportSet__init__(b, report_class_name, bitrate, channel_name, time_intervals, report, report_anomalies_only, report_sans_anomalies, missing_times) ==
    IF get_report_class(b, report_class_name).raised # "none"
    THEN get_report_class(b, report_class_name)
    ELSE IF ~(get_report_class(b, report_class_name).data = "type")
    THEN Raise("ValueError: report_class must be equal to the name of a ReportData class")
    ELSE IF report = None /\ report_anomalies_only = None /\ report_sans_anomalies = None
    THEN Raise("TypeError: type() takes 1 or 3 arguments")
    ELSE IF report = None \/ report_anomalies_only = None \/ report_sans_anomalies = None
    THEN Raise("AttributeError: 'NoneType' object has no attribute 'clone'")
    ELSE ReportSet__init___stores(
             b, report_class_name, bitrate, channel_name,
             IF time_intervals = None THEN __init_start_end__(<<>>, <<>>)
             ELSE clone(time_intervals),
             IF missing_times = None THEN __init_start_end__(<<>>, <<>>)
             ELSE clone(missing_times),
             <<Report_clone(b, report), Report_clone(b, report_anomalies_only),
               Report_clone(b, report_sans_anomalies)>>)

\* ReportSet.assert_unionable (_confirm_unionability in the package): the
\* last test raises when the intersection of the two coverages EQUALS the
\* empty set
ReportSet_assert_unionable(b, self, other) ==
    IF self.class # other.class
    THEN "ValueError: instances of ReportSet must be of same type"
    ELSE IF get_report_class(b, self.report_class_name).raised # "none"
    THEN get_report_class(b, self.report_class_name).raised
    ELSE IF get_report_class(b, other.report_class_name).raised # "none"
    THEN get_report_class(b, other.report_class_name).raised
    ELSE IF get_report_class(b, self.report_class_name).data
                # get_report_class(b, other.report_class_name).data
    THEN "ValueError: instances of ReportSet must have same Report class"
    ELSE IF self.channel_name # other.channel_name
    THEN "ValueError: instances of ReportSet must have same channel_name"
    ELSE IF self.bitrate # other.bitrate
    THEN "ValueError: instances of ReportSet must have same bitrate"
    ELSE LET tested(common) ==
                 IF common.raised # "none"
                 THEN common.raised
                 ELSE IF common.data = __init__(<<>>).data
                 THEN "ValueError: instances of ReportSet cannot cover overlapping time intervals"
                 ELSE "none"
         IN  tested(intersection(self.time_intervals, other.time_intervals))

\* ReportSet.__clone__: the constructor, called with the fields of self
ReportSet__clone__(b, self) ==
    ReportSet__init__(b, self.report_class_name, self.bitrate, self.channel_name,
                      self.time_intervals, self.report, self.report_anomalies_only,
                      self.report_sans_anomalies, self.missing_times)

\* ReportInterface.clone on a ReportSet, past the check, whose outcome is c
ReportSet_clone_checked(b, c) ==
    IF c.raised # "none"
    THEN Outcome(Raise(c.raised), c.receiver)
    ELSE Outcome(ReportSet__clone__(b, c.receiver), c.receiver)

\* ReportSet.clone.  Build "package": ReportInterface.clone, the check and
\* then __clone__.  Build "modules": AbstractDictRepresentable.clone, that
\* is from_dict(to_dict()), and __to_dict__ calls to_dict() on
\* time_intervals, which Time.py does not define.
ReportSet_clone(b, self) ==
    IF b = "package"
    THEN ReportSet_clone_checked(b, ReportSet_assert_self_consistent(b, self))
    ELSE Outcome(Raise("AttributeError: 'TimeIntervalSet' object has no attribute 'to_dict'"),
                 self)

\* TimeIntervalSet.__to_dict__
TimeIntervalSet__to_dict__(self) == [data |-> self, version |-> Version]

\* TimeIntervalSet.__from_dict__: cls(d['data'], version=d['version'])
TimeIntervalSet__from_dict__(d) ==
    IF d.version # Version THEN Raise("VersionException") ELSE __init__(d.data)

\* AbstractReport.__to_dict__ of the build "package"
AbstractReport__to_dict__(self) ==
    [bitrate |-> self.bitrate,
     version |-> Version,
     time_intervals |-> TimeIntervalSet__to_dict__(self.time_intervals),
     data |-> [key \in DOMAIN self._data |-> Statistics_to_dict(self._data[key])]]

\* AbstractReport.__from_dict__ of the build "package": every primitive from
\* its dictionary, then cls(bitrate, version, time_intervals, data)
AbstractReport__from_dict__(d) ==
    LET built(data, times) ==
            IF \E key \in DOMAIN data : data[key].raised # "none"
            THEN Raise(data[CHOOSE key \in DOMAIN data : data[key].raised # "none"].raised)
            ELSE IF times.raised # "none"
                 THEN times
                 ELSE IF d.version # Version
                      THEN Raise("VersionException")
                      ELSE Report__init__(d.bitrate, times.data,
                                          [key \in DOMAIN data |-> data[key].data])
    IN  built([key \in DOMAIN d.data |-> Statistics_from_dict(d.data[key])],
              TimeIntervalSet__from_dict__(d.time_intervals))

\* the dictionary of a Report and the Report made from it.  Build "modules":
\* from_dict(self.to_dict()), and AbstReport.__to_dict__ calls to_dict() on
\* time_intervals, which Time.py does not define.  Build "package":
\* type(self).__from_dict__(self.__to_dict__()).
Report_from_dict_of_to_dict(b, self) ==
    IF b = "modules"
    THEN Raise("AttributeError: 'TimeIntervalSet' object has no attribute 'to_dict'")
    ELSE AbstractReport__from_dict__(AbstractReport__to_dict__(self))

\* the dictionary of a ReportSet and the ReportSet made from it.  Build
\* "modules": ReportSet.__to_dict__ calls to_dict() on time_intervals.  Build
\* "package": __to_dict__ returns, and __from_dict__ looks the report class
\* up by name and calls its __from_dict__, which hands bitrate, version,
\* time_intervals and data to a constructor that takes no argument.
ReportSet_from_dict_of_to_dict(b, self) ==
    IF b = "modules"
    THEN Raise("AttributeError: 'TimeIntervalSet' object has no attribute 'to_dict'")
    ELSE IF get_report_class(b, self.report_class_name).raised # "none"
         THEN Raise("KeyError")
         ELSE Raise("TypeError")

\* the five sums of ReportSet.__union__ on the clone `ans` of self; the
\* clone is dropped, for the method has no return statement and so returns
\* None
ReportSet__union___sums(b, ans, other) ==
    LET dropped(e) ==
            IF e # "none" THEN Outcome(Raise(e), ans.receiver)
            ELSE Outcome(Ok(None), ans.receiver)
        fields == <<"time_intervals", "missing_times">>
        reports == <<"report", "report_anomalies_only", "report_sans_anomalies">>
    IN  IF ans.raised # "none" THEN ans
        ELSE dropped(FirstRaised(
                         [i \in 1..2 |-> union(ans.data[fields[i]], other[fields[i]])]
                             \o [i \in 1..3 |->
                                     Report_union(b, ans.data[reports[i]],
                                                  other[reports[i]])]))

\* ReportSet.__union__
ReportSet__union__(b, self, other) ==
    ReportSet__union___sums(b, ReportSet_clone(b, self), other)

\* what a call of union did (r) and what the two operands hold after it
Unioned(r, receiver, argument) ==
    [raised |-> r.raised, data |-> r.data, receiver |-> receiver, argument |-> argument]

\* the template past the two checks, whose outcomes are `mine` and `theirs`
ReportSet_union_checked(b, other, mine, theirs) ==
    LET unioned(r) == Unioned(r, r.receiver, theirs.receiver)
        tested(e) ==
            IF e # "none"
            THEN Unioned(Raise(e), mine.receiver, theirs.receiver)
            ELSE unioned(ReportSet__union__(b, mine.receiver, theirs.receiver))
    IN  IF mine.raised # "none"
        THEN Unioned(Raise(mine.raised), mine.receiver, other)
        ELSE IF theirs.raised # "none"
        THEN Unioned(Raise(theirs.raised), mine.receiver, theirs.receiver)
        ELSE tested(ReportSet_assert_unionable(b, mine.receiver, theirs.receiver))

\* ReportSet.union, the template of AbstUnionable.union and of
\* ReportInterface.union: self is checked, other is checked, the two are
\* checked against each other, then __union__
ReportSet_union(b, self, other) ==
    ReportSet_union_checked(b, other,
                            ReportSet_assert_self_consistent(b, self),
                            ReportSet_assert_self_consistent(b, other))

\* ReportSet.from_time_and_channel_name, a staticmethod.  `loaded` is what
\* Timeseries.from_time_and_channel_name does for the window: "block" (it
\* returns the samples), "missing" (it raises MissingChannelDataException)
\* or "error" (it raises something else).  ReportSet.py never imports
\* Timeseries; a Report class that is looked up takes no keyword arguments;
\* `self` and `cls` are bound nowhere in a staticmethod.
ReportSet_from_time_and_channel_name(b, report_class_name, channel_name, time_intervals, bitrate, loaded) ==
    LET report_class == get_report_class(b, report_class_name)
    IN  IF report_class.raised # "none" THEN report_class
        ELSE IF "Timeseries" \notin Namespace(b)
        THEN Raise("NameError: global name 'Timeseries' is not defined")
        ELSE IF loaded = "error" THEN Raise("IOError")
        ELSE IF loaded = "block"
        THEN Raise("NameError: global name 'self' is not defined")
        ELSE IF report_class.data \in {"IRIGBReport", "DuoToneReport"}
        THEN Raise("TypeError: __init__() got an unexpected keyword argument 'bitrate'")
        ELSE Raise("NameError: global name 'cls' is not defined")

(***************************************************************************)
(* The calls on Statistics, Reports and ReportSets: the caller holds two    *)
(* values of one class and makes one call on the first.                     *)
(***************************************************************************)
Builds == {"package", "modules"}

\* no call on a TimeIntervalSet is in progress
TimeIdle ==
    /\ op2 = ""
    /\ A = <<>>
    /\ B = <<>>
    /\ C = <<>>
    /\ bounds = None
    /\ rawList = <<>>
    /\ rawStart = <<>>
    /\ rawEnd = <<>>
    /\ out = <<>>
    /\ outObj = ""
    /\ out2 = <<>>
    /\ frames = <<>>

InitStatistics ==
    /\ pc = "statistics"
    /\ aggA \in StatisticsValues
    /\ aggA0 = aggA
    /\ aggB \in StatisticsValues
    /\ aggB0 = aggB
    /\ request = None

\* what the caller holds after a call that returned or raised
Returns(r) ==
    /\ raised' = r.raised
    /\ aggOut' = IF r.raised = "none" THEN r.data ELSE None
    /\ pc' = "done"

\* aggA.union(aggB), aggA + aggB on two Statistics
StatisticsUnion ==
    /\ pc = "statistics"
    /\ Returns(Statistics_union(aggA, aggB))
    /\ op' = "Statistics.union"
    /\ UNCHANGED <<build, aggA, aggA0, aggB, aggB0, request, steps>>
    /\ UNCHANGED timeVars

\* the multiples of the frame length among the endpoints
FrameTimes == {t \in Times : t % FrameLen = 0}

\* the frame-aligned coverages: what the constructor returns for the sorted
\* lists of frame times
Windows ==
    {__init__(SortedSeq(S)).data : S \in {T \in SUBSET FrameTimes : Cardinality(T) % 2 = 0}}

\* the _data maps of a Report: no primitive, or a Statistics under the key
\* "statistics"
NoData == [key \in {} |-> None]

\* the Reports a caller holds: empty ones over any window, with or without a
\* Statistics, and ones that hold the Statistics of a block over a
\* non-empty window
ReportValues ==
    {Report__init__(b, w, NoData).data : b \in Bitrates, w \in Windows}
        \cup UNION {{Report__init__(s.bitrate, w, [key \in {"statistics"} |-> s]).data :
                         w \in {x \in Windows : s.num > 0 => x # <<>>}} :
                     s \in StatisticsValues}

InitReports ==
    /\ pc = "report"
    /\ aggA \in ReportValues
    /\ aggA0 = aggA
    /\ aggB \in ReportValues
    /\ aggB0 = aggB
    /\ request = None

\* aggA.union(aggB), aggA + aggB on two Reports
ReportUnion ==
    /\ pc = "report"
    /\ LET r == Report_union(build, aggA, aggB)
       IN  /\ Returns(r)
           /\ aggA' = r.receiver
    /\ op' = "Report.union"
    /\ UNCHANGED <<build, aggA0, aggB, aggB0, request, steps>>
    /\ UNCHANGED timeVars

\* aggA.clone() on a Report
ReportClone ==
    /\ pc = "report"
    /\ LET r == Report_clone(build, aggA)
       IN  /\ Returns(r)
           /\ aggA' = r.receiver
    /\ op' = "Report.clone"
    /\ UNCHANGED <<build, aggA0, aggB, aggB0, request, steps>>
    /\ UNCHANGED timeVars

\* the channels and the names of Report classes that callers use; the last
\* name is bound in neither namespace
Channels == {"H1:CAL-PCALX_IRIGB_OUT_DQ", "L1:CAL-PCALX_IRIGB_OUT_DQ"}
ReportKinds == {"IRIGBReport", "DuoToneReport", "NoSuchReport"}

\* the Reports that the partitions of a ReportSet are drawn from: empty
\* ones, and ones with the Statistics of the one sample 1 over a non-empty
\* window
PartReports ==
    {r \in ReportValues :
         /\ r.bitrate = 1
         /\ DOMAIN r._data = {"statistics"}
         /\ r._data["statistics"].num <= 1
         /\ r._data["statistics"].num = 1 => r._data["statistics"].sum[1] = 1}

\* the pairs of an anomalous and a nominal partition over disjoint coverage
Partitions ==
    {p \in PartReports \X PartReports :
         intersection(p[1].time_intervals, p[2].time_intervals).data = <<>>}

\* the Report that the check of a ReportSet compares report with: the sum
\* of the two partitions, over the coverage of both and with the sum of
\* the two primitives under every key
WholeReport(x, y) ==
    Report__init__(x.bitrate, union(x.time_intervals, y.time_intervals).data,
                   [key \in DOMAIN x._data |->
                        Statistics_union(x._data[key], y._data[key]).data]).data

\* the ReportSets a caller holds.  No call of the constructor returns, so
\* these are instances whose fields were stored as __init__ stores them (by
\* a subclass with a constructor of its own) and that meet the three
\* requirements of the class's check: report is the sum of the two
\* partitions, time_intervals is the coverage of report, and missing_times
\* (nothing, or all of it) lies inside.
ReportSetValues ==
    UNION {{ReportSet_fields("IRIGBReport", 1, "H1:CAL-PCALX_IRIGB_OUT_DQ",
                             WholeReport(p[1], p[2]).time_intervals,
                             WholeReport(p[1], p[2]), p[1], p[2], m) :
                m \in {<<>>, WholeReport(p[1], p[2]).time_intervals}} :
           p \in Partitions}

InitReportSets ==
    /\ pc = "reportset"
    /\ aggA \in ReportSetValues
    /\ aggA0 = aggA
    /\ \E s \in ReportSetValues, c \in Channels, k \in ReportKinds :
           aggB = [s EXCEPT !.channel_name = c, !.report_class_name = k]
    /\ aggB0 = aggB
    /\ request = None

\* aggA.union(aggB), aggA + aggB on two ReportSets
ReportSetUnion ==
    /\ pc = "reportset"
    /\ LET r == ReportSet_union(build, aggA, aggB)
       IN  /\ Returns(r)
           /\ aggA' = r.receiver
           /\ aggB' = r.argument
    /\ op' = "ReportSet.union"
    /\ UNCHANGED <<build, aggA0, aggB0, request, steps>>
    /\ UNCHANGED timeVars

\* the arguments of a call of the constructor: the fields of a ReportSet,
\* with time_intervals, missing_times and report as in it or replaced, and
\* with all three Reports, none of them or just the first handed in
InitConstructSet ==
    /\ pc = "construct_set"
    /\ aggA = None
    /\ aggA0 = None
    /\ aggB = None
    /\ aggB0 = None
    /\ \E p \in Partitions, k \in ReportKinds, t \in Windows, m \in Windows,
          whole \in 1..2, given \in 0..2 :
           request = [report_class_name |-> k,
                      bitrate |-> 1,
                      channel_name |-> "H1:CAL-PCALX_IRIGB_OUT_DQ",
                      time_intervals |-> t,
                      report |-> IF given = 0 THEN None
                                 ELSE IF whole = 1 THEN WholeReport(p[1], p[2])
                                      ELSE p[1],
                      report_anomalies_only |-> IF given = 2 THEN p[1] ELSE None,
                      report_sans_anomalies |-> IF given = 2 THEN p[2] ELSE None,
                      missing_times |-> m]

\* ReportSet(report_class_name, bitrate, channel_name, time_intervals,
\* report, report_anomalies_only, report_sans_anomalies, missing_times)
ReportSetConstruct ==
    /\ pc = "construct_set"
    /\ Returns(ReportSet__init__(build, request.report_class_name, request.bitrate,
                                 request.channel_name, request.time_intervals,
                                 request.report, request.report_anomalies_only,
                                 request.report_sans_anomalies, request.missing_times))
    /\ op' = "ReportSet"
    /\ UNCHANGED <<build, aggA, aggA0, aggB, aggB0, request, steps>>
    /\ UNCHANGED timeVars

\* the arguments of a call of the factory: the window of one frame file,
\* what the loader does for it, the samples that it returns and what the
\* anomaly predicate of the Report class says of them
InitLoad ==
    /\ pc = "load"
    /\ aggA = None
    /\ aggA0 = None
    /\ aggB = None
    /\ aggB0 = None
    /\ \E k \in ReportKinds, c \in Channels, w \in Windows, rate \in Bitrates,
          l \in {"block", "missing", "error"}, samples \in Blocks \cup {<<>>},
          anomalous \in BOOLEAN :
           /\ Len(w) = 2
           /\ w[2] - w[1] = FrameLen
           /\ l # "block" => (samples = <<>> /\ ~anomalous)
           /\ l = "block" => (samples # <<>> /\ Len(samples[1]) = rate)
           /\ request = [report_class_name |-> k,
                         channel_name |-> c,
                         time_intervals |-> w,
                         bitrate |-> rate,
                         loaded |-> l,
                         block |-> samples,
                         anomalous |-> anomalous]

\* ReportSet.from_time_and_channel_name(report_class_name, channel_name,
\* time_intervals, bitrate)
FromTimeAndChannelName ==
    /\ pc = "load"
    /\ Returns(ReportSet_from_time_and_channel_name(
                   build, request.report_class_name, request.channel_name,
                   request.time_intervals, request.bitrate, request.loaded))
    /\ op' = "ReportSet.from_time_and_channel_name"
    /\ UNCHANGED <<build, aggA, aggA0, aggB, aggB0, request, steps>>
    /\ UNCHANGED timeVars

\* the arguments of a call of fold_in_timeseries on a Report: a block of
\* samples of the Report's bitrate and the window it covers
InitFold ==
    /\ pc = "fold"
    /\ aggA \in ReportValues
    /\ aggA0 = aggA
    /\ aggB = None
    /\ aggB0 = None
    /\ \E w \in Windows, samples \in Blocks :
           /\ w # <<>>
           /\ Len(samples[1]) = aggA.bitrate
           /\ request = [timeseries |-> samples, time_intervals |-> w,
                         bitrate |-> aggA.bitrate]

\* aggA.fold_in_timeseries(timeseries, time_intervals, bitrate)
FoldInTimeseries ==
    /\ pc = "fold"
    /\ LET r == Report_fold_in_timeseries(build, aggA, request.timeseries,
                                          request.time_intervals, request.bitrate)
       IN  /\ Returns(r)
           /\ aggA' = r.receiver
    /\ op' = "Report.fold_in_timeseries"
    /\ UNCHANGED <<build, aggA0, aggB, aggB0, request, steps>>
    /\ UNCHANGED timeVars

(***************************************************************************)
(* A union call taken one method at a time: the template of                 *)
(* ReportInterface.union and AbstUnionable.union, on two Statistics.         *)
(***************************************************************************)
\* the template with the argument checked before the receiver
union_template_argument_first ==
    <<"other.assert_self_consistent()", "self.assert_self_consistent()",
      "self.assert_unionable(other)", "self.__union__(other)">>

\* the four statements of union, in the order of the source
union_template ==
    <<"self.assert_self_consistent()", "other.assert_self_consistent()",
      "self.assert_unionable(other)", "self.__union__(other)">>

\* a Statistics one of whose vectors was replaced after construction by one
\* of another length (the attributes are plain public attributes): its
\* self-consistency check fails
Reassigned(s) == [s EXCEPT !.sum = s.sum \o <<0>>]

\* the operands of the union calls taken one method at a time
TemplateOperands == StatisticsValues \cup {Reassigned(Statistics_default(b).data) : b \in Bitrates}

InitTemplate ==
    /\ pc = "union"
    /\ aggA \in TemplateOperands
    /\ aggA0 = aggA
    /\ aggB \in TemplateOperands
    /\ aggB0 = aggB
    /\ request = None
    /\ TimeIdle
    /\ op = ""
    /\ raised = "none"
    /\ build \in Builds
    /\ aggOut = None
    /\ steps = <<>>

\* the statement of the template that runs next
NextStatement == union_template[Len(steps) + 1]

\* a statement of the template ran: it raised e ("none" when it returned),
\* which ends the call
Ran(statement, e) ==
    /\ steps' = Append(steps, statement)
    /\ raised' = e
    /\ pc' = IF e = "none" THEN "union" ELSE "done"
    /\ op' = "union"
    /\ UNCHANGED <<build, aggA, aggA0, aggB, aggB0, request, aggOut>>
    /\ UNCHANGED timeVars

\* self.assert_self_consistent()
CheckReceiver ==
    /\ pc = "union"
    /\ Len(steps) < Len(union_template)
    /\ NextStatement = "self.assert_self_consistent()"
    /\ Ran("self.assert_self_consistent()",
           IF Statistics_assert_self_consistent(aggA) THEN "none" ELSE "AssertionError")

\* other.assert_self_consistent()
CheckArgument ==
    /\ pc = "union"
    /\ Len(steps) < Len(union_template)
    /\ NextStatement = "other.assert_self_consistent()"
    /\ Ran("other.assert_self_consistent()",
           IF Statistics_assert_self_consistent(aggB) THEN "none" ELSE "AssertionError")

\* self.assert_unionable(other)
CheckPair ==
    /\ pc = "union"
    /\ Len(steps) < Len(union_template)
    /\ NextStatement = "self.assert_unionable(other)"
    /\ Ran("self.assert_unionable(other)", Statistics_assert_unionable(aggA, aggB))

\* return self.__union__(other)
Combine ==
    /\ pc = "union"
    /\ Len(steps) < Len(union_template)
    /\ NextStatement = "self.__union__(other)"
    /\ steps' = Append(steps, "self.__union__(other)")
    /\ Returns(Statistics__union__(aggA, aggB))
    /\ op' = "union"
    /\ UNCHANGED <<build, aggA, aggA0, aggB, aggB0, request>>
    /\ UNCHANGED timeVars

NextTemplate ==
    \/ CheckReceiver
    \/ CheckArgument
    \/ CheckPair
    \/ Combine

SpecTemplate == InitTemplate /\ [][NextTemplate]_vars

\* the value the caller holds as aggA, to its dictionary and back
from_dict_of_to_dict(b, self) ==
    IF self.class = "Statistics"
    THEN Statistics_from_dict(Statistics_to_dict(self))
    ELSE IF self.class = "Report"
         THEN Report_from_dict_of_to_dict(b, self)
         ELSE ReportSet_from_dict_of_to_dict(b, self)

\* from_dict(aggA.to_dict()) on a Statistics, a Report or a ReportSet
DictRoundTrip ==
    /\ pc \in {"statistics", "report", "reportset"}
    /\ Returns(from_dict_of_to_dict(build, aggA))
    /\ op' = "from_dict(to_dict)"
    /\ UNCHANGED <<build, aggA, aggA0, aggB, aggB0, request, steps>>
    /\ UNCHANGED timeVars

InitAggregates ==
    /\ TimeIdle
    /\ op = ""
    /\ raised = "none"
    /\ build \in Builds
    /\ aggOut = None
    /\ steps = <<>>
    /\ \/ InitStatistics
       \/ InitReports
       \/ InitReportSets
       \/ InitConstructSet
       \/ InitLoad
       \/ InitFold

NextAggregates ==
    \/ StatisticsUnion
    \/ ReportUnion
    \/ ReportClone
    \/ ReportSetUnion
    \/ ReportSetConstruct
    \/ FromTimeAndChannelName
    \/ DictRoundTrip
    \/ FoldInTimeseries

SpecAggregates == InitAggregates /\ [][NextAggregates]_vars

\* the five operations that take a constructed set as their receiver
Operations == {"union", "intersection", "complement", "round", "split"}

\* C11: union, intersection, complement_with_respect_to,
\* round_to_frame_times and split_into_frame_file_intervals never change the
\* endpoints of the receiver or of the argument: across the step of any of
\* these calls, returning or raising, A and B hold what they held before.
C11_OperandsUnchanged ==
    [][(op = "" /\ op' \in Operations) => (A' = A /\ B' = B)]_vars

\* a union returned endpoints that neither operand holds, and both operands
\* are non-empty
C11_Witness ==
    /\ op = "union"
    /\ Returned
    /\ Len(A) > 0
    /\ Len(B) > 0
    /\ out # A
    /\ out # B

\* C12: every value that union, intersection and
\* complement_with_respect_to return is a new instance, neither the receiver
\* object nor the argument object, also when an operand is the empty set.
C12_ResultIsNewInstance ==
    (FirstReturned /\ op \in {"union", "intersection", "complement"})
        => outObj = "fresh"


\* how many times the value v occurs in the list l
Occurrences(l, v) == Cardinality({i \in DOMAIN l : l[i] = v})

\* what is left of a sorted list after equal neighbours were removed two by
\* two: the values that occur an odd number of times, in ascending order
Collapsed(l) == SortedSeq({v \in {l[i] : i \in DOMAIN l} : Occurrences(l, v) % 2 = 1})

\* C13: TimeIntervalSet(list) raises when the list has odd length or is not
\* in ascending order, and otherwise returns with equal adjacent endpoints
\* removed pairwise; [a,b,b,c] becomes [a,c] and [b,b] becomes the empty set.
C13_ConstructorValidatesAndCollapses ==
    op = "new" =>
        /\ raised # "none" <=> (Len(rawList) % 2 # 0 \/ ~IsSorted(rawList))
        /\ raised = "none" => out = Collapsed(rawList)
        /\ __init__(<<0, 1, 1, 2>>) = Ok(<<0, 2>>)
        /\ __init__(<<1, 1>>) = Ok(<<>>)

\* [a, b, b, c] with a < b < c was accepted and became [a, c]
C13_Witness ==
    /\ op = "new"
    /\ raised = "none"
    /\ Len(rawList) = 4
    /\ rawList[1] < rawList[2]
    /\ rawList[2] = rawList[3]
    /\ rawList[3] < rawList[4]
    /\ out = <<rawList[1], rawList[4]>>


\* the larger and the smaller of two numbers
Larger(x, y) == IF x >= y THEN x ELSE y

Smaller(x, y) == IF x <= y THEN x ELSE y

\* C14: Report.union(other) fails with the overlapping-coverage error and
\* returns nothing whenever the two time_intervals have a common point; when
\* key sets, bitrate and version match and the coverages are disjoint, it
\* returns a Report whose time_intervals holds the points of both coverages
\* and whose every primitive is the union of the two primitives of that key.
C14_ReportUnion ==
    op = "Report.union" =>
        /\ ~Disjoint(aggA0.time_intervals, aggB0.time_intervals)
               => /\ raised = "ValueError: Reports have overlapping time intervals."
                  /\ aggOut = None
        /\ (/\ Disjoint(aggA0.time_intervals, aggB0.time_intervals)
            /\ DOMAIN aggA0._data = DOMAIN aggB0._data
            /\ aggA0.bitrate = aggB0.bitrate)
               => /\ raised = "none"
                  /\ aggOut.class = "Report"
                  /\ Points(aggOut.time_intervals)
                         = Points(aggA0.time_intervals) \cup Points(aggB0.time_intervals)
                  /\ DOMAIN aggOut._data = DOMAIN aggA0._data
                  /\ \A key \in DOMAIN aggA0._data :
                         aggOut._data[key]
                             = Statistics_union(aggA0._data[key], aggB0._data[key]).data

\* the error that a union of ReportSets over overlapping coverage is to raise
ReportSetOverlap == "ValueError: instances of ReportSet cannot cover overlapping time intervals"

\* two ReportSets of one channel, report kind and bitrate (and version)
Compatible(x, y) ==
    /\ x.channel_name = y.channel_name
    /\ x.report_class_name = y.report_class_name
    /\ x.bitrate = y.bitrate

\* C15: ReportSet.union raises the overlapping-coverage error whenever the
\* time_intervals of the two ReportSets have a common point, a ReportSet
\* unioned with itself included, and the test of compatibility lets two
\* ReportSets pass that have the same channel, report kind, bitrate and
\* version and disjoint time_intervals.
C15_ReportSetUnionRejectsOverlap ==
    op = "ReportSet.union" =>
        /\ ~Disjoint(aggA0.time_intervals, aggB0.time_intervals)
               => raised = ReportSetOverlap
        /\ (Compatible(aggA0, aggB0)
                /\ Disjoint(aggA0.time_intervals, aggB0.time_intervals))
               => ReportSet_assert_unionable(build, aggA0, aggB0) = "none"

\* C16: the union of two compatible ReportSets with disjoint coverage
\* returns a ReportSet whose time_intervals, missing_times, report,
\* report_anomalies_only and report_sans_anomalies are the unions of those
\* fields of the two operands, and whose report equals the union of its
\* report_anomalies_only and its report_sans_anomalies.
C16_ReportSetUnionFieldwise ==
    (/\ op = "ReportSet.union"
     /\ Compatible(aggA0, aggB0)
     /\ Disjoint(aggA0.time_intervals, aggB0.time_intervals)) =>
        /\ raised = "none"
        /\ aggOut # None
        /\ aggOut.class = "ReportSet"
        /\ aggOut.time_intervals
               = union(aggA0.time_intervals, aggB0.time_intervals).data
        /\ aggOut.missing_times
               = union(aggA0.missing_times, aggB0.missing_times).data
        /\ aggOut.report = WholeReport(aggA0.report, aggB0.report)
        /\ aggOut.report_anomalies_only
               = WholeReport(aggA0.report_anomalies_only, aggB0.report_anomalies_only)
        /\ aggOut.report_sans_anomalies
               = WholeReport(aggA0.report_sans_anomalies, aggB0.report_sans_anomalies)
        /\ aggOut.report
               = WholeReport(aggOut.report_anomalies_only, aggOut.report_sans_anomalies)

\* the three requirements on the fields x of a ReportSet: missing_times lies
\* in time_intervals, time_intervals is the coverage of report, and report
\* equals the union of the two partitions
Consistent(x) ==
    /\ Subset(x.missing_times, x.time_intervals)
    /\ x.time_intervals = x.report.time_intervals
    /\ Report_assert_unionable(x.report_anomalies_only, x.report_sans_anomalies) = "none"
    /\ x.report = WholeReport(x.report_anomalies_only, x.report_sans_anomalies)

\* the constructor was handed all three Reports
AllGiven ==
    /\ request.report # None
    /\ request.report_anomalies_only # None
    /\ request.report_sans_anomalies # None

ReportOf(rate, w, s) == Report__init__(rate, w, [key \in {"statistics"} |-> s]).data

\* C18: when the samples of the window load, from_time_and_channel_name
\* returns a ReportSet whose report is the Report built from the samples,
\* whose missing_times is empty, and which holds that Report in
\* report_anomalies_only when the anomaly predicate holds and in
\* report_sans_anomalies otherwise, the other partition being an empty
\* Report over the same window.
C18_LoadedBlockGoesToOnePartition ==
    (op = "ReportSet.from_time_and_channel_name" /\ request.loaded = "block") =>
        /\ raised = "none"
        /\ aggOut # None
        /\ aggOut.missing_times = <<>>
        /\ aggOut.report
               = ReportOf(request.bitrate, request.time_intervals,
                          Statistics_from_timeseries(request.block).data)
        /\ aggOut.report_anomalies_only
               = ReportOf(request.bitrate, request.time_intervals,
                          IF request.anomalous
                          THEN Statistics_from_timeseries(request.block).data
                          ELSE Statistics_default(request.bitrate).data)
        /\ aggOut.report_sans_anomalies
               = ReportOf(request.bitrate, request.time_intervals,
                          IF request.anomalous
                          THEN Statistics_default(request.bitrate).data
                          ELSE Statistics_from_timeseries(request.block).data)

\* C19: when the loader raises the missing-data error for the window,
\* from_time_and_channel_name raises nothing and returns a ReportSet whose
\* missing_times and time_intervals both equal the window and whose three
\* Reports are empty.
C19_MissingDataIsRecorded ==
    (op = "ReportSet.from_time_and_channel_name" /\ request.loaded = "missing") =>
        /\ raised = "none"
        /\ aggOut # None
        /\ aggOut.missing_times = request.time_intervals
        /\ aggOut.time_intervals = request.time_intervals
        /\ \A r \in {aggOut.report, aggOut.report_anomalies_only,
                     aggOut.report_sans_anomalies} :
               /\ r.class = "Report"
               /\ \A key \in DOMAIN r._data : r._data[key].num = 0

\* C20: the union of two Statistics of one bitrate adds sum, sum_sq and num
\* and keeps, at every offset, the larger of the two max values and the
\* smaller of the two min values.
C20_StatisticsUnionSelectsExtremes ==
    (op = "Statistics.union" /\ aggA0.bitrate = aggB0.bitrate) =>
        /\ raised = "none"
        /\ aggOut.num = aggA0.num + aggB0.num
        /\ \A i \in 1..aggA0.bitrate :
               /\ aggOut.sum[i] = aggA0.sum[i] + aggB0.sum[i]
               /\ aggOut.sum_sq[i] = aggA0.sum_sq[i] + aggB0.sum_sq[i]
               /\ aggOut.max[i] = Larger(aggA0.max[i], aggB0.max[i])
               /\ aggOut.min[i] = Smaller(aggA0.min[i], aggB0.min[i])


(***************************************************************************)
(* The bounds search and the algebra of TimeIntervalSet union.              *)
(***************************************************************************)
\* a bounds search of a non-empty set for a < b has returned
Searched ==
    /\ op = "__left_and_right_bounds__"
    /\ A # <<>>
    /\ bounds.a < bounds.b

\* i is the leftmost (zero-based) index of d whose endpoint is >= x; when
\* there is no such endpoint nothing is asked of i
IsLeftmostAtLeast(d, i, x) ==
    (\E j \in DOMAIN d : d[j] >= x)
        => /\ i + 1 \in DOMAIN d
           /\ d[i + 1] >= x
           /\ \A j \in 1..i : d[j] < x

\* i is the rightmost (zero-based) index of d whose endpoint is <= x; when
\* there is no such endpoint nothing is asked of i
IsRightmostAtMost(d, i, x) ==
    (\E j \in DOMAIN d : d[j] <= x)
        => /\ i + 1 \in DOMAIN d
           /\ d[i + 1] <= x
           /\ \A j \in (i + 2)..Len(d) : d[j] > x

\* C26 as stated: the bounds search of a non-empty set for a < b returns the
\* leftmost index whose endpoint is >= a and the rightmost index whose
\* endpoint is <= b, and each index is odd exactly when its boundary point
\* (a for l, b for r) lies inside the set
C26_OddIndexMeansInside ==
    Searched =>
        /\ raised = "none"
        /\ IsLeftmostAtLeast(A, bounds.l, bounds.a)
        /\ IsRightmostAtMost(A, bounds.r, bounds.b)
        /\ (bounds.l % 2 = 1) <=> Contains(A, bounds.a)
        /\ (bounds.r % 2 = 1) <=> Contains(A, bounds.b)

\* C26, amended: the bounds search of a non-empty set for a < b returns the
\* leftmost index whose endpoint is >= a (the number of endpoints when there
\* is none) and the rightmost index whose endpoint is <= b (-1 when there is
\* none); l is odd exactly when a lies after the start of an interval and
\* not after its end, and r is even exactly when b lies inside the set, so
\* an odd r means that b lies in a gap
C26_BoundsSearch ==
    Searched =>
        /\ raised = "none"
        /\ IsLeftmostAtLeast(A, bounds.l, bounds.a)
        /\ IsRightmostAtMost(A, bounds.r, bounds.b)
        /\ (\A j \in DOMAIN A : A[j] < bounds.a) => bounds.l = Len(A)
        /\ (\A j \in DOMAIN A : A[j] > bounds.b) => bounds.r = -1
        /\ (bounds.l % 2 = 1) <=>
               \E k \in 1..(Len(A) \div 2) : A[2 * k - 1] < bounds.a /\ bounds.a <= A[2 * k]
        /\ (bounds.r % 2 = 0) <=> Contains(A, bounds.b)

\* a search whose two points lie in two different intervals of the set
C26_Witness ==
    /\ Searched
    /\ raised = "none"
    /\ bounds.l % 2 = 1
    /\ bounds.r % 2 = 0
    /\ bounds.l < bounds.r
    /\ Contains(A, bounds.a)
    /\ Contains(A, bounds.b)

\* the caller's sums, each named by the two expressions it evaluated
Sums ==
    {"A + B, B + A", "(A + B) + C, A + (B + C)", "A + A, A",
     "A + TimeIntervalSet(), A", "TimeIntervalSet() + A, A"}

\* C27: union of TimeIntervalSets does not depend on the merge order: for
\* all valid A, B and C, A + B == B + A, (A + B) + C == A + (B + C),
\* A + A == A and A + empty == empty + A == A (== is TimeIntervalSet.__eq__,
\* and every sum returns)
C27_UnionIsOrderIndependent ==
    (pc = "done" /\ op \in Sums) =>
        /\ raised = "none"
        /\ __eq__(out, out2)

\* three different non-empty sets were summed in both groupings, and the
\* sum has fewer intervals than the three together: intervals were merged
C27_Witness ==
    /\ pc = "done"
    /\ op = "(A + B) + C, A + (B + C)"
    /\ raised = "none"
    /\ A # <<>> /\ B # <<>> /\ C # <<>>
    /\ A # B /\ B # C /\ A # C
    /\ out # <<>>
    /\ Len(out) < Len(A) + Len(B) + Len(C)
    /\ Points(out) = Points(A) \cup Points(B) \cup Points(C)

\* C30: every interval that split_into_frame_file_intervals emits passes
\* the tests locate_frame_file makes of its window: it equals its own
\* round_to_frame_times(), its combined_length is 64 and it has two endpoints
C30_SplitFramesFitLocateFrameFile ==
    (op = "split" /\ raised = "none") =>
        \A i \in DOMAIN frames :
            /\ locate_frame_file(frames[i]) = "none"
            /\ round_to_frame_times(frames[i]) = Ok(frames[i])
            /\ combined_length(frames[i]) = 64
            /\ Len(frames[i]) = 2

\* an interval two frames long was split in two
C30_Witness ==
    /\ op = "split"
    /\ raised = "none"
    /\ Len(frames) = 2
    /\ frames[1] # frames[2]

(***************************************************************************)
(* Neutral elements, dictionaries and clones of the aggregates.             *)
(***************************************************************************)
\* C21: the default empty Statistics is a neutral element of union: for
\* every Statistics s, s.union(Statistics(bitrate=s.bitrate)) and
\* Statistics(bitrate=s.bitrate).union(s) return a value equal to s, with
\* sum, sum_sq, max, min and num unchanged
C21_DefaultIsNeutral ==
    LET empty == Statistics_default(aggA0.bitrate).data
        same(s) ==
            /\ raised = "none"
            /\ Statistics__eq__(aggOut, s)
            /\ aggOut.sum = s.sum /\ aggOut.sum_sq = s.sum_sq
            /\ aggOut.max = s.max /\ aggOut.min = s.min
            /\ aggOut.num = s.num
    IN  (op = "Statistics.union" /\ aggA0.bitrate = aggB0.bitrate) =>
            /\ aggB0 = empty => same(aggA0)
            /\ aggA0 = empty => same(aggB0)

\* AbstReport.__eq__ on two Reports of one type and version
Report__eq__(self, other) ==
    /\ DOMAIN self._data = DOMAIN other._data
    /\ self.bitrate = other.bitrate
    /\ __eq__(self.time_intervals, other.time_intervals)
    /\ \A key \in DOMAIN self._data : Statistics__eq__(self._data[key], other._data[key])

\* x == y for two values of one class
Equal(x, y) ==
    /\ x.class = y.class
    /\ IF x.class = "Statistics"
       THEN Statistics__eq__(x, y)
       ELSE IF x.class = "Report"
            THEN Report__eq__(x, y)
            ELSE /\ x.report_class_name = y.report_class_name
                 /\ x.bitrate = y.bitrate
                 /\ x.channel_name = y.channel_name
                 /\ __eq__(x.time_intervals, y.time_intervals)
                 /\ __eq__(x.missing_times, y.missing_times)
                 /\ Report__eq__(x.report, y.report)
                 /\ Report__eq__(x.report_anomalies_only, y.report_anomalies_only)
                 /\ Report__eq__(x.report_sans_anomalies, y.report_sans_anomalies)

\* C22: to_dict followed by from_dict is the identity on every aggregate
\* value: for every Statistics, Report and ReportSet x (and the
\* TimeIntervalSets they hold), from_dict(to_dict(x)) returns a value equal
\* to x
C22_DictRoundTripIsIdentity ==
    op = "from_dict(to_dict)" =>
        /\ raised = "none"
        /\ Equal(aggOut, aggA0)

\* C23: Report.clone() and Report.union(other), on compatible operands,
\* return a Report, a new object that shares no primitive, no primitive map
\* and no interval data with the receiver or with other; the receiver's
\* primitive map and every primitive value in it are as before the call.
\* Sharing shows in the model as a write to the result landing in an operand,
\* so it is stated as: the operands hold what they held
C23_CloneAndUnionShareNothing ==
    (\/ op = "Report.clone"
     \/ (op = "Report.union" /\ Report_assert_unionable(aggA0, aggB0) = "none")) =>
        /\ raised = "none"
        /\ aggOut.class = "Report"
        /\ op = "Report.clone" => Report__eq__(aggOut, aggA0)
        /\ aggA = aggA0
        /\ aggB = aggB0

\* the constructor was handed none of the three Reports
NoneGiven ==
    /\ request.report = None
    /\ request.report_anomalies_only = None
    /\ request.report_sans_anomalies = None

\* C25: constructing a ReportSet with a report_class_name that names a
\* Report class succeeds when none of the three Reports is handed in (over
\* an empty coverage), giving three default empty Reports, and succeeds when
\* all three are handed in together and are consistent, storing a clone of
\* each; handing in only some of the three is rejected with an error
C25_AllOrNoneOfTheReports ==
    (op = "ReportSet" /\ request.report_class_name \in {"IRIGBReport", "DuoToneReport"}) =>
        /\ (NoneGiven /\ request.time_intervals = <<>> /\ request.missing_times = <<>>) =>
               /\ raised = "none"
               /\ aggOut # None
               /\ \A f \in {"report", "report_anomalies_only", "report_sans_anomalies"} :
                      /\ aggOut[f].time_intervals = <<>>
                      /\ aggOut[f].bitrate = request.bitrate
        /\ (AllGiven /\ Consistent(request)) =>
               /\ raised = "none"
               /\ aggOut # None
               /\ \A f \in {"report", "report_anomalies_only", "report_sans_anomalies"} :
                      Report__eq__(aggOut[f], request[f])
        /\ (~NoneGiven /\ ~AllGiven) => (raised # "none" /\ aggOut = None)

\* C29: every ReportSet assembled by from_time_and_channel_name, when the
\* samples load and when the loader reports missing data alike, passes the
\* ReportSet self-consistency check: the factory returns a ReportSet whose
\* two partitions can be unioned, whose report is that union, whose
\* missing_times lies in its time_intervals and whose time_intervals is the
\* coverage of its report
C29_AssembledIsConsistent ==
    (op = "ReportSet.from_time_and_channel_name"
        /\ request.loaded \in {"block", "missing"}
        /\ request.report_class_name \in {"IRIGBReport", "DuoToneReport"}) =>
        /\ raised = "none"
        /\ aggOut # None
        /\ ReportSet_assert_self_consistent(build, aggOut).raised = "none"
        /\ Consistent(aggOut)

\* C28: a fold_in_timeseries on a Report, the empty one included, whose
\* window has no common point with the Report's coverage returns a Report
\* whose time_intervals is the union of the coverage and the window; one
\* whose window has a common point with the coverage fails with the
\* overlapping-coverage error; either way the receiver (coverage and every
\* primitive) is as before, so no window is counted twice
C28_FoldInAccumulatesCoverage ==
    op = "Report.fold_in_timeseries" =>
        /\ aggA = aggA0
        /\ Disjoint(aggA0.time_intervals, request.time_intervals) =>
               /\ raised = "none"
               /\ aggOut.class = "Report"
               /\ Points(aggOut.time_intervals)
                      = Points(aggA0.time_intervals) \cup Points(request.time_intervals)
        /\ ~Disjoint(aggA0.time_intervals, request.time_intervals) =>
               /\ raised = "ValueError: Reports have overlapping time intervals."
               /\ aggOut = None

(***************************************************************************)
(* The order of the statements of a union call.                             *)
(***************************************************************************)
\* x is a prefix of y
IsPrefix(x, y) == Len(x) <= Len(y) /\ \A i \in DOMAIN x : x[i] = y[i]

\* one of the three checks of the call on the operands fails
ACheckFails ==
    \/ ~Statistics_assert_self_consistent(aggA0)
    \/ ~Statistics_assert_self_consistent(aggB0)
    \/ Statistics_assert_unionable(aggA0, aggB0) # "none"

\* C24: every union call runs the self-consistency check of the receiver,
\* then that of the argument, then the compatibility check of the pair, and
\* only then the raw combine; a check that fails ends the call with an
\* error, and when one of the three checks fails the combine is never run
\* and no result is produced
C24_UnionTemplateOrder ==
    /\ IsPrefix(steps, <<"self.assert_self_consistent()", "other.assert_self_consistent()",
                         "self.assert_unionable(other)", "self.__union__(other)">>)
    /\ (steps # <<>> /\ raised # "none") => (pc = "done" /\ aggOut = None)
    /\ ACheckFails =>
           /\ \A i \in DOMAIN steps : steps[i] # "self.__union__(other)"
           /\ aggOut = None
           /\ pc = "done" => raised # "none"
    /\ (pc = "done" /\ steps # <<>>) =>
           \/ raised # "none"
           \/ Len(steps) = 4 /\ ~ACheckFails /\ aggOut # None

\* a call ended by the compatibility check, after both self-consistency
\* checks had passed
C24_Witness ==
    /\ pc = "done"
    /\ steps = <<"self.assert_self_consistent()", "other.assert_self_consistent()",
                 "self.assert_unionable(other)">>
    /\ raised = "ValueError: Statistics have different bitrates"
    /\ aggOut = None
=============================================================================
